---------------------------- MODULE Spec2Model ----------------------------
(***************************************************************************)
(* Model of the on-chain registration and badge-issuance code of the      *)
(* skill-badge platform:                                                   *)
(*   - the ledger client (testRegistry registerTestOnChain and             *)
(*     badgeNFTService mintBadgeNFT): no-signer short circuit and the      *)
(*     signed path getAccount -> simulate -> send -> poll -> result;       *)
(*   - the HTTP handlers registerTest / mintNFT with the simplified        *)
(*     services they call (registryService, nftService);                   *)
(*   - the BadgesTab retry-mint action working on the badges table.        *)
(*                                                                         *)
(* Template strings `a_b_c` are modelled as the tuple of their parts       *)
(* <<a, b, c>>; the first part is the prefix of the string.  Error         *)
(* messages `outer: inner` are the tuple <<outer>> \o inner.               *)
(***************************************************************************)
EXTENDS Integers, Naturals, Sequences, FiniteSets, Bags, TLC

\* ------------------------------------------------------------------ bounds
\* Number of register-test requests the model serves.
MaxCalls == 2
\* Largest value of Date.now() the model lets the clock reach.
MaxClock == 1

\* ------------------------------------------------------- program constants
\* const maxAttempts = 30 (poll budget of the signed path)
maxAttempts == 30

\* --------------------------------------------------------------- universes
\* null for a status or an id held as a plain string.
None == "null"
\* null for a template string (hash, token id, URL): no parts.
Null == <<>>
\* No value returned or thrown yet.
NoResult == [pending |-> TRUE]

TestIds == {"T1", "T2"}
Wallets == {"W1", "W2"}
Cids == {"cid1"}

\* Slots of the mint-nft endpoint used by direct HTTP clients.
ReqIds == {"q1", "q2"}
\* Slots of the retryMintNFT calls of the BadgesTab (and of their requests).
RetryIds == {"p1", "p2"}
Slots == ReqIds \cup RetryIds

\* The wallet the BadgesTab is opened for, and the rows of its badges.
WalletAddress == "W1"
BadgeIds == {"b1", "b2"}
BadgeTest == [b \in BadgeIds |-> IF b = "b1" THEN "T1" ELSE "T2"]

\* Active window of each test (tests.start_time, tests.end_time): T1 is
\* active for the whole run, T2 ended before it.
TestWindow == [t \in TestIds |->
                 IF t = "T1" THEN [start_time |-> 0, end_time |-> MaxClock + 1]
                             ELSE [start_time |-> -2, end_time |-> -1]]

\* Math.random().toString(36).substring(7): an unpredictable short suffix.
RandSuffix == {"r1", "r2"}

\* Hash the ledger assigns to a submitted transaction (hex digest).
ChainHashes == {<<"a3f1">>}

\* Values scValToNative can decode from the mint's return value.
ChainTokenIds == {<<"7">>}

\* Largest number of async calls of one component (connectWallet of the
\* Login; fetchTests, fetchUserData, handleRegister of an EarnTab;
\* fetchCustomBadges, handleDeleteBadge of the ProfileTab) that are waiting
\* for an answer when a further one is started by a click.
MaxRuns == 2

VARIABLES
    now,        \* Date.now()
    lpc,        \* ledger client: position of the current invocation
    lop,        \* ledger client: "register" or "mint"
    lsigner,    \* ledger client: TRUE iff a signerKeypair was supplied
    largs,      \* ledger client: arguments of the invocation
    laccount,   \* ledger client: local `account` ("loaded" or "dummy")
    lstatus,    \* ledger client: local `status`
    lattempts,  \* ledger client: local `attempts`
    ltxHash,    \* ledger client: local `txHash`
    lsimulated, \* ledger client: how simulateTransaction settled
    lsubmit,    \* ledger client: txResponse.status of the submit
    lnet,       \* ledger client: network calls made by this invocation
    lresult,    \* ledger client: value returned or error thrown
    registry,   \* record store: registry reference kept per test
    regLog,     \* register-test endpoint: requests served, with responses
    req,        \* mint-nft endpoint: the requests in flight, per slot
    storage,    \* object store: the blobs kept at each badge-metadata key
    badges,     \* record store: rows of the badges table
    attemptsTable,  \* record store: rows of the attempts table
    groupedBadges,  \* BadgesTab: badge rows of the last fetch
    loading,    \* BadgesTab: `loading`
    error,      \* BadgesTab: `error` (TRUE iff a message is set)
    mintingBadgeId, \* BadgesTab: `mintingBadgeId`
    retry,      \* BadgesTab: the retryMintNFT calls in flight, per slot
    gen,        \* frontend generateBadgeMetadataUri: the metadata built
    genLog,     \* frontend generateBadgeMetadataUri: the calls made
    ethereum,   \* browser: window.ethereum (present or not) and the accounts
                \* the wallet exposes
    localStorage,   \* browser: the items stellar_user and stellar_wallet
    page,       \* router: the page shown ("login" or "dashboard")
    login,      \* Login: component state and position of connectWallet
    dash,       \* Dashboard: component state and the registered listener
    testsTable, \* record store: rows of the tests table
    registrations,  \* record store: rows of the test_registrations table
    earn,       \* EarnTab: component state, per open tab
    bucket,     \* object store: the file paths held by the bucket stellar
    customBadgesTable,  \* record store: rows of custom_badges, next row id
    profile     \* ProfileTab: component state

lvars == <<lpc, lop, lsigner, largs, laccount, lstatus, lattempts, ltxHash, lsimulated,
          lsubmit, lnet, lresult>>
\* Everything but the clock that the ledger client does not touch.
tabvars == <<badges, groupedBadges, loading, error, mintingBadgeId, retry>>
genvars == <<gen, genLog>>
sessvars == <<ethereum, localStorage, page, login, dash>>
\* The state of the frontend pages other than the BadgesTab.
earnvars == <<testsTable, registrations, earn>>
profvars == <<bucket, customBadgesTable, profile>>
frontvars == <<sessvars, earnvars, profvars>>
notLedger == <<registry, regLog, req, storage, attemptsTable, tabvars, genvars,
      frontvars>>
\* Everything but the clock that the register-test endpoint does not touch.
notRegister == <<lvars, req, storage, attemptsTable, tabvars, genvars,
      frontvars>>
\* Everything but the clock that the mint-nft endpoint does not touch.
notMint == <<lvars, registry, regLog, attemptsTable, tabvars, genvars,
      frontvars>>
\* Everything but the clock that the BadgesTab and its backend do not touch.
notTab == <<lvars, registry, regLog, attemptsTable, genvars,
      frontvars>>
\* Everything but the clock.
\* The backend, the record and object stores, the BadgesTab and the generator.
backvars == <<lvars, registry, regLog, req, storage, attemptsTable, tabvars,
              genvars>>
notClock == <<backvars, frontvars>>
\* Everything but the clock that Login and Dashboard do not touch.
notSession == <<backvars, earnvars, profvars>>
\* Everything but the clock that the EarnTab does not touch.
notEarn == <<backvars, sessvars, profvars>>
\* Everything but the clock that the ProfileTab does not touch.
notProfile == <<backvars, sessvars, earnvars>>
vars == <<now, backvars, frontvars>>

\* ------------------------------------------------------------ pure helpers
\* First `_`-separated part of a template string: its prefix.
Marker(id) == id[1]

\* `sim_${Date.now()}_${Math.random().toString(36).substring(7)}`
SimTxHash(t, rnd) == <<"sim", t, rnd>>

\* badgeNFTService.ts:35  `nft_${Date.now()}_${Math.random()...}`
NoSignerTokenId(t, rnd) == <<"nft", t, rnd>>

\* badgeNFTService.ts:104 / nftService.ts:33  `nft_${testId}_${Date.now()}`
FallbackTokenId(testId, t) == <<"nft", testId, t>>

\* throw new Error(`${prefix}: ${error.message}`)
WrapError(prefix, msg) == <<prefix>> \o msg

NoNet == [getAccount |-> 0, simulateTransaction |-> 0,
          sendTransaction |-> 0, getTransaction |-> 0]

NetCall(net, name) == [net EXCEPT ![name] = @ + 1]

\* Prefix the catch block of each ledger operation puts on the message.
LedgerErrorPrefix(op) ==
    IF op = "register" THEN "Blockchain registration failed"
                       ELSE "NFT minting failed"

\* The value a ledger operation returns on success.
LedgerSuccess(op, args, txHash, tokenId, t) ==
    IF op = "register"
    THEN [success |-> TRUE, txHash |-> txHash,
          testMetadata |-> [testId |-> args.testId, creator |-> args.creator,
                            metadataCid |-> args.metadataCid, createdAt |-> t]]
    ELSE [success |-> TRUE, txHash |-> txHash, tokenId |-> tokenId,
          metadataUrl |-> args.metadataUri]

\* The error a ledger operation throws from its catch block.
LedgerFailure(op, msg) ==
    [success |-> FALSE, error |-> WrapError(LedgerErrorPrefix(op), msg)]

\* while (status === 'PENDING' && attempts < maxAttempts)
PollGuard(status, attempts) == status = "PENDING" /\ attempts < maxAttempts

\* Mutant of PollFailed: a status still PENDING passes the check.
PollFailed_PendingPasses(status) == status \notin {"SUCCESS", "PENDING"}

\* Mutant of PollFailed: only a FAILED status is treated as a failure.
PollFailed_OnlyFAILED(status) == status = "FAILED"

\* if (status !== 'SUCCESS') throw ...
PollFailed(status) == status # "SUCCESS"

\* Mutant of ExtractTokenId: tokenId starts out empty instead of holding the
\* generated id.
ExtractTokenId_NoPlaceholder(outcome, testId, t, decoded) ==
    IF outcome = "decoded" THEN decoded ELSE Null

\* Token id after the extraction block of mintBadgeNFT (lines 103-117).
ExtractTokenId(outcome, testId, t, decoded) ==
    IF outcome = "decoded" THEN decoded ELSE FallbackTokenId(testId, t)

\* ---------------------------------------------------------------- clock
\* What a second Date.now() of the same block can answer after a first one
\* answered t: the clock may have moved on in between.
LaterReads(t) == t..MaxClock

Tick ==
    /\ now < MaxClock
    /\ now' = now + 1
    /\ UNCHANGED notClock

\* ------------------------------------------------------- ledger client
RegisterArgs == [testId : TestIds, creator : Wallets, metadataCid : Cids]

\* Entry of registerTestOnChain / mintBadgeNFT up to the first await.  With
\* a signer the Contract object is built first; the constructor throws for
\* a contract id (an environment variable) that is missing or no contract
\* address, and the catch block wraps the error.
LedgerCall(op, args, signer, contract) ==
    /\ lpc = "idle"
    /\ lop' = op
    /\ largs' = args
    /\ lsigner' = signer
    /\ lnet' = NoNet
    /\ laccount' = None
    /\ lstatus' = None
    /\ lattempts' = 0
    /\ ltxHash' = Null
    /\ lsimulated' = None
    /\ lsubmit' = None
    /\ IF ~signer
       THEN \E r1 \in RandSuffix, r2 \in RandSuffix, t2 \in LaterReads(now) :
              \* register: hash, then createdAt; mint: token id, then hash
              /\ lresult' = IF op = "register"
                            THEN LedgerSuccess(op, args, SimTxHash(now, r2),
                                               NoSignerTokenId(now, r1), t2)
                            ELSE LedgerSuccess(op, args, SimTxHash(t2, r2),
                                               NoSignerTokenId(now, r1), t2)
              /\ now' = t2
              /\ lpc' = "done"
       ELSE /\ IF contract
               THEN lresult' = NoResult /\ lpc' = "getAccount"
               ELSE /\ lresult' = LedgerFailure(op, <<"Invalid contract ID">>)
                    /\ lpc' = "failed"
            /\ UNCHANGED now
    /\ UNCHANGED notLedger

\* await server.getAccount(signerKeypair.publicKey()) settles: the account
\* is loaded and the transaction is built, or the call rejects, or (in
\* mintBadgeNFT) the account is loaded and nativeToScVal throws on a
\* receiver that is no address; every throw ends in the catch block.
LedgerGetAccount(outcome) ==
    /\ lpc = "getAccount"
    /\ outcome = "build_throws" => lop = "mint"
    /\ lnet' = NetCall(lnet, "getAccount")
    /\ laccount' = IF outcome = "rejects" THEN laccount ELSE "loaded"
    /\ IF outcome = "ok"
       THEN /\ lpc' = "simulate"
            /\ UNCHANGED lresult
       ELSE /\ lpc' = "failed"
            /\ lresult' = LedgerFailure(lop,
                             IF outcome = "rejects"
                             THEN <<"account not found">>
                             ELSE <<"invalid address">>)
    /\ UNCHANGED <<now, lop, lsigner, largs, lstatus, lattempts, ltxHash,
                   lsimulated, lsubmit, notLedger>>

\* Mutant of LedgerSimulate: the simulation result is not inspected.
LedgerSimulate_Unchecked(outcome) ==
    /\ lpc = "simulate"
    /\ lnet' = NetCall(lnet, "simulateTransaction")
    /\ lsimulated' = IF outcome = "ok" THEN "ok" ELSE "error"
    /\ lpc' = "send"
    /\ UNCHANGED <<now, lop, lsigner, largs, laccount, lstatus, lattempts,
                   ltxHash, lsubmit, lresult, notLedger>>

\* await server.simulateTransaction(transaction) settles.  The call rejects
\* (catch block, nothing simulated); or it answers a simulation error
\* (isSimulationError => throw); or it answers without error and the
\* transaction is assembled and signed.
LedgerSimulate(outcome) ==
    /\ lpc = "simulate"
    /\ lnet' = NetCall(lnet, "simulateTransaction")
    /\ lsimulated' = CASE outcome = "rejects" -> "rejects"
                       [] outcome = "error" -> "error"
                       [] OTHER -> "ok"
    /\ IF outcome = "ok"
       THEN /\ lpc' = "send"
            /\ UNCHANGED lresult
       ELSE /\ lpc' = "failed"
            /\ lresult' = LedgerFailure(lop,
                  IF outcome = "rejects" THEN <<"network error">>
                  ELSE <<"Simulation failed", "sim-error">>)
    /\ UNCHANGED <<now, lop, lsigner, largs, laccount, lstatus, lattempts,
                   ltxHash, lsubmit, notLedger>>

\* await server.sendTransaction(preparedTx) settles.  The call rejects
\* (catch block, no status read); status ERROR => throw; otherwise txHash,
\* status, attempts are initialised for the loop.
LedgerSend(st, hash) ==
    /\ lpc = "send"
    /\ lnet' = NetCall(lnet, "sendTransaction")
    /\ lsubmit' = IF st = "rejects" THEN lsubmit ELSE st
    /\ IF st \in {"rejects", "ERROR"}
       THEN /\ lpc' = "failed"
            /\ lresult' = LedgerFailure(lop,
                             IF st = "rejects"
                             THEN <<"network error">>
                             ELSE <<"Transaction failed", "error-result">>)
            /\ UNCHANGED <<lstatus, lattempts, ltxHash>>
       ELSE /\ lpc' = "poll"
            /\ ltxHash' = hash
            /\ lstatus' = st
            /\ lattempts' = 0
            /\ UNCHANGED lresult
    /\ UNCHANGED <<now, lop, lsigner, largs, laccount, lsimulated, notLedger>>

\* One iteration of the polling loop.
LedgerPoll(st) ==
    /\ lpc = "poll"
    /\ PollGuard(lstatus, lattempts)
    /\ lnet' = NetCall(lnet, "getTransaction")
    /\ lstatus' = st
    /\ lattempts' = lattempts + 1
    /\ UNCHANGED <<now, lpc, lop, lsigner, largs, laccount, ltxHash, lsimulated, lsubmit,
                   lresult, notLedger>>

\* getTransaction rejects inside the loop: the catch block rethrows.
LedgerPollThrows ==
    /\ lpc = "poll"
    /\ PollGuard(lstatus, lattempts)
    /\ lnet' = NetCall(lnet, "getTransaction")
    /\ lpc' = "failed"
    /\ lresult' = LedgerFailure(lop, <<"network error">>)
    /\ UNCHANGED <<now, lop, lsigner, largs, laccount, lstatus, lattempts, ltxHash,
                   lsimulated, lsubmit, notLedger>>

\* The loop condition is false: check the final status.
LedgerPollExit ==
    /\ lpc = "poll"
    /\ ~PollGuard(lstatus, lattempts)
    /\ IF PollFailed(lstatus)
       THEN /\ lpc' = "failed"
            /\ lresult' = LedgerFailure(lop,
                              <<"Transaction failed with status", lstatus>>)
       ELSE IF lop = "register"
            THEN /\ lpc' = "done"
                 /\ lresult' = LedgerSuccess(lop, largs, ltxHash, Null, now)
            ELSE /\ lpc' = "extract"
                 /\ UNCHANGED lresult
    /\ UNCHANGED <<now, lop, lsigner, largs, laccount, lstatus, lattempts, ltxHash,
                   lsimulated, lsubmit, lnet, notLedger>>

\* mintBadgeNFT lines 102-128: read the result and extract the token id.
LedgerExtract(outcome, decoded) ==
    /\ lpc = "extract"
    /\ lnet' = NetCall(lnet, "getTransaction")
    /\ IF outcome = "rpc_throws"
       THEN /\ lpc' = "failed"
            /\ lresult' = LedgerFailure(lop, <<"network error">>)
       ELSE /\ lpc' = "done"
            /\ lresult' = LedgerSuccess(lop, largs, ltxHash,
                              ExtractTokenId(outcome, largs.testId, now, decoded), now)
    /\ UNCHANGED <<now, lop, lsigner, largs, laccount, lstatus, lattempts, ltxHash,
                   lsimulated, lsubmit, notLedger>>

\* The caller has the result; the client is ready for the next invocation.
LedgerReturn ==
    /\ lpc \in {"done", "failed"}
    /\ lpc' = "idle"
    /\ UNCHANGED <<now, lop, lsigner, largs, laccount, lstatus, lattempts, ltxHash,
                   lsimulated, lsubmit, lnet, lresult, notLedger>>

\* ------------------------------------------- ledger client, read-only calls
\* getTestFromChain, listTestsFromChain, getNFTMetadata.
ReadOps == {"get_test", "list_tests", "get_token_uri"}

\* Public keys StellarSDK.Keypair.random() can produce.
RandomKeys == {"K1", "K2"}

\* Arguments of each read.
ReadArgs(op) ==
    IF op = "get_test" THEN [testId : TestIds]
    ELSE IF op = "get_token_uri" THEN [tokenId : ChainTokenIds]
    ELSE {[none |-> TRUE]}

\* null (get_test, get_token_uri) or [] (list_tests).
ReadNothing(op) ==
    IF op = "list_tests" THEN [kind |-> "list", items |-> <<>>]
                         ELSE [kind |-> "null"]

\* { testId: r.test_id, creator: r.creator, metadataCid: r.metadata_cid,
\*   createdAt: r.created_at }
TestMetadataOf(r) ==
    [testId |-> r.test_id, creator |-> r.creator,
     metadataCid |-> r.metadata_cid, createdAt |-> r.created_at]

\* The value a read returns for an outcome of its simulation.  get_test and
\* list_tests guard the decoded value (`result ? {...} : null`,
\* `Array.isArray(result) ? ... : []`); get_token_uri returns it as decoded,
\* undefined and the empty string included.
ReadResult(op, outcome, raw, uri) ==
    IF outcome \in {"throws", "sim_error", "no_result", "decode_throws"}
    THEN ReadNothing(op)
    ELSE IF op = "get_token_uri"
         THEN IF outcome = "empty" THEN [kind |-> "undefined"]
                                   ELSE [kind |-> "uri", uri |-> uri]
    ELSE IF outcome = "empty" THEN ReadNothing(op)
    ELSE IF op = "get_test" THEN [kind |-> "test", test |-> TestMetadataOf(raw)]
    ELSE [kind |-> "list", items |-> <<TestMetadataOf(raw)>>]

\* Entry of a read up to `await server.getAccount(dummyKeypair.publicKey())`.
\* The Contract object is built first; when its constructor throws (a
\* contract id that is missing or no contract address) the catch block
\* returns null or [] before a keypair is drawn.
ReadCall(op, args, key, contract) ==
    /\ lpc = "idle"
    /\ lop' = op
    /\ largs' = [args |-> args, source |-> IF contract THEN key ELSE None]
    /\ lsigner' = FALSE
    /\ lnet' = NoNet
    /\ laccount' = None
    /\ lstatus' = None
    /\ lattempts' = 0
    /\ ltxHash' = Null
    /\ lsimulated' = None
    /\ lsubmit' = None
    /\ IF contract
       THEN lresult' = NoResult /\ lpc' = "readAccount"
       ELSE lresult' = [returned |-> ReadNothing(op)] /\ lpc' = "done"
    /\ UNCHANGED <<now, notLedger>>

\* getAccount settles; a rejection is replaced by a dummy account.
ReadGetAccount(ok) ==
    /\ lpc = "readAccount"
    /\ lnet' = NetCall(lnet, "getAccount")
    /\ laccount' = IF ok THEN "loaded" ELSE "dummy"
    /\ lpc' = "readSimulate"
    /\ UNCHANGED <<now, lop, lsigner, largs, lstatus, lattempts, ltxHash,
                   lsimulated, lsubmit, lresult, notLedger>>

\* Mutant of ReadSimulate: the catch block rethrows instead of returning
\* null or [].
ReadSimulate_Rethrow(outcome, raw, uri) ==
    /\ lpc = "readSimulate"
    /\ lnet' = NetCall(lnet, "simulateTransaction")
    /\ lsimulated' = outcome
    /\ IF outcome \in {"throws", "decode_throws"}
       THEN /\ lresult' = LedgerFailure(lop, <<"network error">>)
            /\ lpc' = "failed"
       ELSE /\ lresult' = [returned |-> ReadResult(lop, outcome, raw, uri)]
            /\ lpc' = "done"
    /\ UNCHANGED <<now, lop, lsigner, largs, laccount, lstatus, lattempts,
                   ltxHash, lsubmit, notLedger>>

\* simulateTransaction settles and the read returns.
ReadSimulate(outcome, raw, uri) ==
    /\ lpc = "readSimulate"
    /\ lnet' = NetCall(lnet, "simulateTransaction")
    /\ lsimulated' = outcome
    /\ lresult' = [returned |-> ReadResult(lop, outcome, raw, uri)]
    /\ lpc' = "done"
    /\ UNCHANGED <<now, lop, lsigner, largs, laccount, lstatus, lattempts,
                   ltxHash, lsubmit, notLedger>>

\* ------------------------------------------- POST /api/blockchain/register-test
\* A missing or empty body field is the empty string: `!field` is true.
Missing == ""
Falsy(x) == x = Missing

RegisterBodies == [testId : TestIds \cup {Missing},
                   creator : Wallets \cup {Missing},
                   metadataCid : Cids \cup {Missing}]

\* registryService registerTestOnChain: builds a simulated hash from one
\* read of the clock (t) and createdAt from a second one (t2), and returns;
\* it reads and writes no store.
RegisterTestOnChain(testId, creator, metadataCid, t, t2, rnd) ==
    [success |-> TRUE,
     txHash |-> SimTxHash(t, rnd),
     testMetadata |-> [testId |-> testId, creator |-> creator,
                       metadataCid |-> metadataCid, createdAt |-> t2]]

\* The response the registerTest handler sends for a body.
RegisterTestResponse(body, t, t2, rnd) ==
    IF Falsy(body.testId) \/ Falsy(body.creator) \/ Falsy(body.metadataCid)
    THEN [status |-> 400,
          error |-> "Missing required fields: testId, creator, metadataCid"]
    ELSE [status |-> 200, success |-> TRUE,
          message |-> "Test registered on blockchain",
          data |-> RegisterTestOnChain(body.testId, body.creator,
                                       body.metadataCid, t, t2, rnd)]

\* The registerTest handler, from request to response.
RegisterTest(body) ==
    /\ Len(regLog) < MaxCalls
    /\ \E rnd \in RandSuffix, t2 \in LaterReads(now) :
         LET resp == RegisterTestResponse(body, now, t2, rnd)
         IN /\ regLog' = Append(regLog, [body |-> body, resp |-> resp])
            /\ now' = IF resp.status = 200 THEN t2 ELSE now
    /\ UNCHANGED <<registry, notRegister>>

\* ----------------------------------------------- POST /api/blockchain/mint-nft
\* currentTime >= startTime && currentTime <= endTime
IsActive(test, t) == t >= test.start_time /\ t <= test.end_time

\* badge-metadata/{testId}_{walletAddress}.json
StorageKey(testId, wallet) == <<"badge-metadata", testId, wallet>>
StorageKeys == {StorageKey(t, w) : t \in TestIds, w \in Wallets}

\* Public URL of a key: base and bucket in front of the key.
PublicUrl(key) == <<"storage/v1/object/public/stellar">> \o key

\* storageService generateBadgeMetadata: the document of spec section 4.1,
\* reduced to the two attributes that name the badge (title, score and the
\* issuance timestamp are not used by anything modelled here).
GenerateBadgeMetadata(testId, wallet) ==
    [testId |-> testId, wallet |-> wallet]

\* storageService uploadBadgeMetadata, resolved: the blob at the key of
\* (testId, wallet) is the document just generated (an overwrite).
UploadBadgeMetadata(store, key, metadata) == [store EXCEPT ![key] = {metadata}]

\* The message of the error a rejected upload throws.
StorageCause == <<"storage error">>

IdleReq == [pc |-> "idle"]

\* nftService mintBadgeNFT after the upload: lines 31-46.  The token id is
\* built from one read of the clock (t), the hash from a second one (t2).
MintBadgeNFTResult(testId, metadataUrl, t, t2, rnd) ==
    [success |-> TRUE,
     txHash |-> SimTxHash(t2, rnd),
     tokenId |-> FallbackTokenId(testId, t),
     metadataUrl |-> metadataUrl]

\* Direct clients' requests already answered when a new request arrives.
Answered == {p \in ReqIds : req[p].pc = "done"}

\* Mutant of MintArrive: the validation looks at receiver only.
MintArrive_ReceiverOnly(q, body) ==
    /\ req[q].pc = "idle"
    /\ IF Falsy(body.receiver)
       THEN req' = [req EXCEPT ![q] =
                [pc |-> "done", body |-> body, after |-> Answered, uploads |-> 0,
                 upload |-> "none",
                 resp |-> [status |-> 400,
                           error |-> "Missing required fields: receiver, testId"]]]
       ELSE req' = [req EXCEPT ![q] =
                [pc |-> "upload", body |-> body, after |-> Answered, uploads |-> 1,
                 metadata |-> GenerateBadgeMetadata(body.testId, body.receiver)]]
    /\ UNCHANGED storage

\* mintNFT handler up to the first await: validation, then mintBadgeNFT
\* generates the metadata and starts the upload.
MintArrive(q, body) ==
    /\ req[q].pc = "idle"
    /\ IF Falsy(body.receiver) \/ Falsy(body.testId)
       THEN req' = [req EXCEPT ![q] =
                [pc |-> "done", body |-> body, after |-> Answered, uploads |-> 0,
                 upload |-> "none",
                 resp |-> [status |-> 400,
                           error |-> "Missing required fields: receiver, testId"]]]
       ELSE req' = [req EXCEPT ![q] =
                [pc |-> "upload", body |-> body, after |-> Answered, uploads |-> 1,
                 metadata |-> GenerateBadgeMetadata(body.testId, body.receiver)]]
    /\ UNCHANGED storage

\* Mutant of MintUpload: a rejected upload is swallowed and the mint goes
\* on with the URL of the key (a fallback instead of the rethrow).
MintUpload_Fallback(q, ok) ==
    /\ req[q].pc = "upload"
    /\ LET b == req[q].body
           key == StorageKey(b.testId, b.receiver)
       IN /\ storage' = IF ok THEN UploadBadgeMetadata(storage, key, req[q].metadata)
                              ELSE storage
          /\ \E rnd \in RandSuffix, t2 \in LaterReads(now) :
               /\ now' = t2
               /\ req' = [req EXCEPT ![q] =
                 [pc |-> "done", body |-> b, after |-> req[q].after,
                       uploads |-> req[q].uploads,
                  upload |-> IF ok THEN "resolved" ELSE "rejected",
                  resp |-> [status |-> 200, success |-> TRUE,
                            message |-> "NFT badge minted successfully",
                            data |-> MintBadgeNFTResult(b.testId,
                                         PublicUrl(key), now, t2, rnd)]]]

\* Mutant of MintUpload: the catch block of mintBadgeNFT throws a new error
\* without the message of the one it caught.
MintUpload_NoCause(q, ok) ==
    /\ req[q].pc = "upload"
    /\ LET b == req[q].body
           key == StorageKey(b.testId, b.receiver)
       IN IF ok
          THEN /\ storage' = UploadBadgeMetadata(storage, key, req[q].metadata)
               /\ \E rnd \in RandSuffix, t2 \in LaterReads(now) :
                    /\ now' = t2
                    /\ req' = [req EXCEPT ![q] =
                      [pc |-> "done", body |-> b, after |-> req[q].after,
                       uploads |-> req[q].uploads,
                       upload |-> "resolved",
                       resp |-> [status |-> 200, success |-> TRUE,
                                 message |-> "NFT badge minted successfully",
                                 data |-> MintBadgeNFTResult(b.testId,
                                              PublicUrl(key), now, t2, rnd)]]]
          ELSE /\ UNCHANGED <<now, storage>>
               /\ req' = [req EXCEPT ![q] =
                      [pc |-> "done", body |-> b, after |-> req[q].after,
                       uploads |-> req[q].uploads,
                       upload |-> "rejected",
                       resp |-> [status |-> 500,
                                 error |-> "Failed to mint NFT badge",
                                 details |-> <<"NFT minting failed">>]]]

\* Mutant of MintUpload: a rejected upload is tried a second time before the
\* error is thrown.
MintUpload_Retry(q, ok) ==
    /\ req[q].pc = "upload"
    /\ LET b == req[q].body
           key == StorageKey(b.testId, b.receiver)
       IN IF ok
          THEN /\ storage' = UploadBadgeMetadata(storage, key, req[q].metadata)
               /\ \E rnd \in RandSuffix, t2 \in LaterReads(now) :
                    /\ now' = t2
                    /\ req' = [req EXCEPT ![q] =
                      [pc |-> "done", body |-> b, after |-> req[q].after,
                       uploads |-> req[q].uploads,
                       upload |-> "resolved",
                       resp |-> [status |-> 200, success |-> TRUE,
                                 message |-> "NFT badge minted successfully",
                                 data |-> MintBadgeNFTResult(b.testId,
                                              PublicUrl(key), now, t2, rnd)]]]
          ELSE /\ UNCHANGED <<now, storage>>
               /\ IF req[q].uploads < 2
                  THEN req' = [req EXCEPT ![q].uploads = @ + 1]
                  ELSE req' = [req EXCEPT ![q] =
                      [pc |-> "done", body |-> b, after |-> req[q].after,
                       uploads |-> req[q].uploads,
                       upload |-> "rejected",
                       resp |-> [status |-> 500,
                                 error |-> "Failed to mint NFT badge",
                                 details |-> WrapError("NFT minting failed",
                                                       StorageCause)]]]

\* uploadBadgeMetadata settles.  Resolved: the blob is written (overwrite),
\* token id and hash are made up from two reads of the clock and the handler
\* answers 200.  Rejected:
\* mintBadgeNFT rethrows and the handler answers 500.
MintUpload(q, ok) ==
    /\ req[q].pc = "upload"
    /\ LET b == req[q].body
           key == StorageKey(b.testId, b.receiver)
       IN IF ok
          THEN /\ storage' = UploadBadgeMetadata(storage, key, req[q].metadata)
               /\ \E rnd \in RandSuffix, t2 \in LaterReads(now) :
                    /\ now' = t2
                    /\ req' = [req EXCEPT ![q] =
                      [pc |-> "done", body |-> b, after |-> req[q].after,
                       uploads |-> req[q].uploads,
                       upload |-> "resolved",
                       resp |-> [status |-> 200, success |-> TRUE,
                                 message |-> "NFT badge minted successfully",
                                 data |-> MintBadgeNFTResult(b.testId,
                                              PublicUrl(key), now, t2, rnd)]]]
          ELSE /\ UNCHANGED <<now, storage>>
               /\ req' = [req EXCEPT ![q] =
                      [pc |-> "done", body |-> b, after |-> req[q].after,
                       uploads |-> req[q].uploads,
                       upload |-> "rejected",
                       resp |-> [status |-> 500,
                                 error |-> "Failed to mint NFT badge",
                                 details |-> WrapError("NFT minting failed",
                                                       StorageCause)]]]

\* The slot is free again once the client has its response.
ReleaseSlot(q) ==
    [p \in Slots |->
        IF p = q THEN IdleReq
        ELSE IF req[p].pc = "idle" THEN req[p]
        ELSE [req[p] EXCEPT !.after = @ \ {q}]]

\* A direct client sends a request.
ClientMint(q, body) ==
    /\ q \in ReqIds
    /\ MintArrive(q, body)
    /\ UNCHANGED <<now, notMint>>

\* The backend finishes the upload of a direct client's request.
ClientMintUpload(q, ok) ==
    /\ q \in ReqIds
    /\ MintUpload(q, ok)
    /\ UNCHANGED notMint

\* A direct client reads its response.
ClientTake(q) ==
    /\ q \in ReqIds
    /\ req[q].pc = "done"
    /\ req' = ReleaseSlot(q)
    /\ UNCHANGED <<now, storage, notMint>>

\* ------------------------------------------------------ BadgesTab retry mint
\* A badge row whose mint has not succeeded.
PendingBadge(b, url) ==
    [id |-> b, test_id |-> BadgeTest[b], wallet_address |-> WalletAddress,
     nft_token_id |-> Null, mint_tx_hash |-> Null, metadata_url |-> url]

\* The attempt row behind a badge: the passed attempt of the wallet on the
\* test of the badge (attempts.test_id, attempts.candidate_wallet).
AttemptOf(b) ==
    [id |-> <<"attempt", b>>, test_id |-> BadgeTest[b],
     candidate_wallet |-> WalletAddress]
AttemptRows == {AttemptOf(b) : b \in BadgeIds}

IdleRetry == [pc |-> "idle"]

\* A new call takes the first free slot.
SlotOrder == [p \in RetryIds |-> IF p = "p1" THEN 1 ELSE 2]

\* badge.nft_token_id ? token box : retry button, disabled while
\* mintingBadgeId === badge.id; nothing is rendered while loading or on error.
RetryOffered(badge) ==
    /\ ~loading
    /\ ~error
    /\ badge \in groupedBadges
    /\ badge.nft_token_id = Null
    /\ mintingBadgeId # badge.id

\* Mutant of UpdateBadge: the chain data is inserted as a new row of the
\* same test and owner instead of being written to the row of `id`.
UpdateBadge_Insert(rows, id, data) ==
    rows \cup {[id |-> id \o "_copy", test_id |-> r.test_id,
                wallet_address |-> r.wallet_address,
                nft_token_id |-> data.tokenId,
                mint_tx_hash |-> data.txHash,
                metadata_url |-> data.metadataUrl] : r \in {x \in rows : x.id = id}}

\* Mutant of UpdateBadge: the update writes the token id and the metadata
\* URL and leaves the transaction hash as it was.
UpdateBadge_TokenOnly(rows, id, data) ==
    {IF r.id = id
     THEN [r EXCEPT !.nft_token_id = data.tokenId,
                    !.metadata_url = data.metadataUrl]
     ELSE r : r \in rows}

\* Mutant of UpdateBadge: the filter of the update matches no row.
UpdateBadge_NoMatch(rows, id, data) == rows

\* supabase.from('badges').update({...}).eq('id', id)
UpdateBadge(rows, id, data) ==
    {IF r.id = id
     THEN [r EXCEPT !.nft_token_id = data.tokenId,
                    !.mint_tx_hash = data.txHash,
                    !.metadata_url = data.metadataUrl]
     ELSE r : r \in rows}

\* supabase.from('badges').select('*').eq('wallet_address', walletAddress)
SelectBadges(rows, wallet) == {r \in rows : r.wallet_address = wallet}

\* The fetch started by the mount effect settles: the rows of the wallet
\* become the view, or the error is shown.  No retry can start before it
\* (nothing is rendered while loading), so the rows it reads are those of
\* the start.
FetchUserBadgesAndAttempts(ok) ==
    /\ loading
    /\ \A p \in RetryIds : retry[p].pc = "idle"
    /\ IF ok
       THEN /\ groupedBadges' = SelectBadges(badges, WalletAddress)
            /\ UNCHANGED error
       ELSE /\ groupedBadges' = {}
            /\ error' = TRUE
    /\ loading' = FALSE
    /\ UNCHANGED <<now, req, storage, badges, mintingBadgeId, retry, notTab>>

\* Click on the retry button: retryMintNFT up to its first await.  The
\* button is disabled for the badge and the request of mintNFTViaBackend
\* is on its way; the backend has not seen it yet.
RetryMintNFT(p, badge) ==
    /\ p \in RetryIds
    /\ retry[p].pc = "idle"
    /\ \A o \in RetryIds : retry[o].pc = "idle" => SlotOrder[p] <= SlotOrder[o]
    /\ RetryOffered(badge)
    /\ mintingBadgeId' = badge.id
    /\ retry' = [retry EXCEPT ![p] = [pc |-> "sent", badge |-> badge]]
    /\ UNCHANGED <<now, req, storage, badges, groupedBadges, loading, error,
                   notTab>>

\* The request of a retry reaches the mintNFT handler.
BackendMintArrive(p) ==
    /\ p \in RetryIds
    /\ retry[p].pc = "sent"
    /\ retry' = [retry EXCEPT ![p] = [@ EXCEPT !.pc = "minting"]]
    /\ MintArrive(p, [receiver |-> WalletAddress,
                      testId |-> retry[p].badge.test_id])
    /\ UNCHANGED <<now, badges, groupedBadges, loading, error,
                   mintingBadgeId, notTab>>

\* The backend finishes the upload of a retry's request.
BackendMintUpload(p, ok) ==
    /\ p \in RetryIds
    /\ MintUpload(p, ok)
    /\ UNCHANGED <<tabvars, notTab>>

\* `finally { setMintingBadgeId(null) }` after the catch block.
RetryFinally(p) ==
    /\ mintingBadgeId' = None
    /\ retry' = [retry EXCEPT ![p] = IdleRetry]

\* backendApi mintNFTViaBackend: resolves with the body of a 200 response
\* that reaches the tab; rejects on any other response or a lost one.
MintNFTViaBackendResolves(resp, delivered) == delivered /\ resp.status = 200

\* The request of a retry never reaches the backend: `await
\* mintNFTViaBackend(...)` rejects, the catch block and `finally` run.
RetryMintUnreached(p) ==
    /\ p \in RetryIds
    /\ retry[p].pc = "sent"
    /\ RetryFinally(p)
    /\ UNCHANGED <<now, req, storage, badges, groupedBadges, loading, error,
                   notTab>>

\* `await mintNFTViaBackend(...)` settles: once it resolved the row update
\* is sent, once it rejected the catch block runs.
RetryMintSettled(p, delivered) ==
    /\ p \in RetryIds
    /\ retry[p].pc = "minting"
    /\ req[p].pc = "done"
    /\ req' = ReleaseSlot(p)
    /\ IF MintNFTViaBackendResolves(req[p].resp, delivered)
       THEN /\ retry' = [retry EXCEPT ![p] =
                  [pc |-> "updating", badge |-> retry[p].badge,
                   mintResult |-> req[p].resp]]
            /\ UNCHANGED mintingBadgeId
       ELSE RetryFinally(p)
    /\ UNCHANGED <<now, storage, badges, groupedBadges, loading, error, notTab>>

\* Mutant of RetryUpdate: the update also removes the attempt of the test.
RetryUpdate_TouchAttempts(p, ok) ==
    /\ p \in RetryIds
    /\ retry[p].pc = "updating"
    /\ IF ok
       THEN /\ badges' = UpdateBadge(badges, retry[p].badge.id,
                                     retry[p].mintResult.data)
            /\ attemptsTable' = {a \in attemptsTable :
                               a.test_id # retry[p].badge.test_id}
            /\ loading' = TRUE
            /\ retry' = [retry EXCEPT ![p] = [@ EXCEPT !.pc = "fetching"]]
            /\ UNCHANGED mintingBadgeId
       ELSE /\ RetryFinally(p)
            /\ UNCHANGED <<badges, attemptsTable, loading>>
    /\ UNCHANGED <<now, req, storage, groupedBadges, error, lvars, registry,
                   regLog, genvars, frontvars>>

\* The row update settles.  Without error the row of badge.id carries the
\* chain data and fetchUserBadgesAndAttempts starts (setLoading(true));
\* with an error the catch block runs.
RetryUpdate(p, ok) ==
    /\ p \in RetryIds
    /\ retry[p].pc = "updating"
    /\ IF ok
       THEN /\ badges' = UpdateBadge(badges, retry[p].badge.id,
                                     retry[p].mintResult.data)
            /\ loading' = TRUE
            /\ retry' = [retry EXCEPT ![p] = [@ EXCEPT !.pc = "fetching"]]
            /\ UNCHANGED mintingBadgeId
       ELSE /\ RetryFinally(p)
            /\ UNCHANGED <<badges, loading>>
    /\ UNCHANGED <<now, req, storage, groupedBadges, error, notTab>>

\* fetchUserBadgesAndAttempts reads the badges (first query).
RetryFetchRead(p, ok) ==
    /\ p \in RetryIds
    /\ retry[p].pc = "fetching"
    /\ IF ok
       THEN /\ retry' = [retry EXCEPT ![p] =
                  [pc |-> "fetched", badge |-> retry[p].badge,
                   mintResult |-> retry[p].mintResult,
                   badgesData |-> SelectBadges(badges, WalletAddress)]]
            /\ UNCHANGED <<groupedBadges, loading, error, mintingBadgeId>>
       ELSE /\ error' = TRUE
            /\ groupedBadges' = {}
            /\ loading' = FALSE
            /\ RetryFinally(p)
    /\ UNCHANGED <<now, req, storage, badges, notTab>>

\* The remaining queries of the fetch settle: the rows read by the first
\* query become the view, or the error is shown; the retry then ends.
RetryFetchDone(p, ok) ==
    /\ p \in RetryIds
    /\ retry[p].pc = "fetched"
    /\ IF ok
       THEN /\ groupedBadges' = retry[p].badgesData
            /\ UNCHANGED error
       ELSE /\ groupedBadges' = {}
            /\ error' = TRUE
    /\ loading' = FALSE
    /\ RetryFinally(p)
    /\ UNCHANGED <<now, req, storage, badges, notTab>>

\* ------------------------------------ frontend generateBadgeMetadataUri
\* undefined for an optional number (score, totalScore); scores are never
\* negative.
Undefined == -1
MaxScore == 10
ScoreValues == (0..MaxScore) \cup {Undefined}
\* The arguments of generateBadgeMetadataUri; testTitle is absent (falsy) or
\* a title.
GenInputs == [testId : TestIds, walletAddress : Wallets,
              testTitle : {Missing, "Title"},
              score : ScoreValues, totalScore : ScoreValues]

\* x.toFixed(2) for x = (score/totalScore) * 100: the whole part and the two
\* decimals of the nearest hundredth (no tie arises for totals up to
\* MaxScore + 1).
ToFixed2(score, totalScore) ==
    LET h == (20000 * score + totalScore) \div (2 * totalScore)
    IN <<h \div 100, (h % 100) \div 10, h % 10>>

\* `${((score/totalScore) * 100).toFixed(2)}%`
PercentText(score, totalScore) == <<"%">> \o ToFixed2(score, totalScore)

\* `${score}/${totalScore}`
RatioText(score, totalScore) == <<"/", score, totalScore>>

\* value of the Score attribute.
\* first copy:  score !== undefined && totalScore !== undefined ? ... : 'Passed'
\* second copy: score ? ... : 'Passed'
ScoreAttribute(version, score, totalScore) ==
    IF version = 1
    THEN IF score # Undefined /\ totalScore # Undefined
         THEN RatioText(score, totalScore) ELSE <<"Passed">>
    ELSE IF score # Undefined /\ score # 0
         THEN RatioText(score, totalScore) ELSE <<"Passed">>

\* value of the Percentage attribute (first copy only).
PercentageAttribute(score, totalScore) ==
    IF score # Undefined /\ totalScore # Undefined /\ totalScore > 0
    THEN PercentText(score, totalScore) ELSE <<"N/A">>

\* testTitle || fallback
TitleOr(testTitle, fallback) == IF Falsy(testTitle) THEN fallback ELSE testTitle

\* The attributes array of the metadata object.
BadgeAttributes(version, in, t) ==
    IF version = 1
    THEN << [trait_type |-> "Test ID", value |-> <<in.testId>>],
            [trait_type |-> "Test Title",
             value |-> <<TitleOr(in.testTitle, "Unknown Test")>>],
            [trait_type |-> "Wallet Address", value |-> <<in.walletAddress>>],
            [trait_type |-> "Score",
             value |-> ScoreAttribute(1, in.score, in.totalScore)],
            [trait_type |-> "Percentage",
             value |-> PercentageAttribute(in.score, in.totalScore)],
            [trait_type |-> "Issued Date", value |-> <<"iso", t>>] >>
    ELSE << [trait_type |-> "Test ID", value |-> <<in.testId>>],
            [trait_type |-> "Wallet Address", value |-> <<in.walletAddress>>],
            [trait_type |-> "Score",
             value |-> ScoreAttribute(2, in.score, in.totalScore)],
            [trait_type |-> "Issued Date", value |-> <<"iso", t>>] >>

\* The metadata object.
BadgeMetadata(version, in, t) ==
    [name |-> <<TitleOr(in.testTitle, "Skill Badge"), "Achievement">>,
     description |->
        IF version = 1
        THEN <<"Badge earned for completing",
               TitleOr(in.testTitle, "the test"),
               "with a score of", in.score, in.totalScore>>
        ELSE <<"Badge earned for completing",
               TitleOr(in.testTitle, "the test")>>,
     image |-> IF version = 1
               THEN <<"storage/v1/object/public/stellar/badge-metadata",
                      "badge-icon.png">>
               ELSE <<"storage/v1/object/public/badge-metadata",
                      "badge-icon.png">>,
     attributes |-> BadgeAttributes(version, in, t)]

\* `${supabaseUrl}/storage/v1/object/public/stellar/badge-metadata/${fileName}`
\* with fileName = `${testId}_${walletAddress}.json`
MetadataUrl(testId, walletAddress) ==
    <<"storage/v1/object/public/stellar", "badge-metadata", testId,
      walletAddress>>

\* Mutant of StorageUpload: every upload adds a blob next to those kept.
StorageUpload_Accumulate(store, key, blob) ==
    [store EXCEPT ![key] = @ \cup {blob}]

\* supabase.storage.from('stellar').upload(key, blob, {upsert: true}),
\* without error: the blob replaces whatever the key held.
StorageUpload(store, key, blob) == [store EXCEPT ![key] = {blob}]

IdleGen == [pc |-> "idle"]

\* The metadata object of a copy, built from the arguments of a call.
BuildMetadata(version, in) ==
    /\ gen.pc = "idle"
    /\ gen' = [pc |-> "built", version |-> version, input |-> in,
               metadata |-> BadgeMetadata(version, in, now)]
    /\ UNCHANGED <<now, lvars, registry, regLog, req, storage, attemptsTable,
                   tabvars, genLog, frontvars>>

\* generateBadgeMetadataUri (first copy) up to the upload: the metadata
\* object is built and the call waits for the upload.  genLog holds the
\* calls in the order they were made; `write` is the place of the call's
\* upload among the uploads the storage took (0: none yet).
GenerateBadgeMetadataUri(in) ==
    /\ Len(genLog) < MaxCalls
    /\ genLog' = Append(genLog,
          [pc |-> "upload", testId |-> in.testId,
           walletAddress |-> in.walletAddress,
           metadata |-> BadgeMetadata(1, in, now), write |-> 0,
           url |-> Null])
    /\ UNCHANGED <<now, lvars, registry, regLog, req, storage, attemptsTable,
                   tabvars, gen, frontvars>>

\* The upload of the call i settles.  Without error the blob is at the key
\* and the call goes on to list the folder; with an error the call rethrows
\* it.
GenUpload(i, ok) ==
    /\ i \in DOMAIN genLog
    /\ genLog[i].pc = "upload"
    /\ IF ok
       THEN /\ storage' = StorageUpload(storage,
                              StorageKey(genLog[i].testId,
                                         genLog[i].walletAddress),
                              genLog[i].metadata)
            /\ genLog' = [genLog EXCEPT
                  ![i].pc = "list",
                  ![i].write = 1 + Cardinality({j \in DOMAIN genLog :
                                                 genLog[j].write > 0})]
       ELSE /\ UNCHANGED storage
            /\ genLog' = [genLog EXCEPT ![i].pc = "rejected"]
    /\ UNCHANGED <<now, lvars, registry, regLog, req, attemptsTable, tabvars,
                   gen, frontvars>>

\* The listing of the call i settles: whatever it answers (the file found,
\* not found, or an error answer without data) is logged and the call
\* resolves with the URL; a listing that rejects is rethrown by the catch
\* block, with the blob already stored.
GenList(i, outcome) ==
    /\ i \in DOMAIN genLog
    /\ genLog[i].pc = "list"
    /\ genLog' = IF outcome = "rejects"
                 THEN [genLog EXCEPT ![i].pc = "rejected"]
                 ELSE [genLog EXCEPT
                         ![i].pc = "resolved",
                         ![i].url = MetadataUrl(genLog[i].testId,
                                                genLog[i].walletAddress)]
    /\ UNCHANGED <<now, lvars, registry, regLog, req, storage, attemptsTable,
                   tabvars, gen, frontvars>>

\* ------------------------------------------- Login and Dashboard session
\* Wallet addresses as the wallet reports them: "0xA" and "0xa" are one
\* account in two spellings, "0xb" is another account.
Addresses == {"0xA", "0xa", "0xb"}

\* String.prototype.toLowerCase
ToLowerCase(x) == IF x = "0xA" THEN "0xa" ELSE x

\* The account lists a wallet reports (eth_accounts, accountsChanged).
AccountLists == {<<>>} \cup {<<a>> : a \in Addresses}

\* localStorage without the two items; getItem answers null.
NoSession == [stellar_user |-> None, stellar_wallet |-> None]

\* Mutant of RemoveSession: only stellar_user is removed.
RemoveSession_UserOnly(store) == [store EXCEPT !.stellar_user = None]

\* localStorage.removeItem('stellar_user'); removeItem('stellar_wallet')
RemoveSession(store) ==
    [store EXCEPT !.stellar_user = None, !.stellar_wallet = None]

\* localStorage.setItem of both items; the user record is named by the
\* wallet address it was created for.
SaveSession(store, walletAddress) ==
    [store EXCEPT !.stellar_user = walletAddress,
                  !.stellar_wallet = walletAddress]

\* A connectWallet waiting at one of its awaits (pc: "requestAccounts",
\* "sign", "fetch") with its locals; `orphan` says that the Login that
\* started it has been unmounted since: its setState calls do nothing, its
\* localStorage calls and its navigate do.
ConnectRun(pc, walletAddress, message, orphan) ==
    [pc |-> pc, walletAddress |-> walletAddress, message |-> message,
     orphan |-> orphan]

\* The running connectWallet calls once the Login shown is unmounted.
Orphaned(runs) ==
    LET T == {[r EXCEPT !.orphan = TRUE] : r \in BagToSet(runs)}
    IN [t \in T |-> CopiesIn(t, runs)
                      + CopiesIn([t EXCEPT !.orphan = FALSE], runs)]

\* Login as constructed: useState defaults; no checkIfWalletIsConnected
\* (`check`) and no connectWallet (`runs`) running.
FreshLogin == [account |-> "", user |-> None, loading |-> FALSE,
               error |-> "", check |-> "idle", runs |-> EmptyBag]

\* Login mounts: fresh component state, and the mount effect runs
\* checkIfWalletIsConnected up to its await; without window.ethereum it sets
\* the error and returns.  The connectWallet calls left running by an
\* earlier Login go on as orphans.
MountLogin(l, eth) ==
    [FreshLogin EXCEPT
        !.error = IF eth THEN ""
                  ELSE "Please install MetaMask to use this feature",
        !.check = IF eth THEN "waiting" ELSE "idle",
        !.runs = Orphaned(l.runs)]

\* Login unmounts (the route changes to the dashboard): the component state
\* is gone, the running connectWallet calls go on.
UnmountLogin(l) == [FreshLogin EXCEPT !.runs = Orphaned(l.runs)]

\* What a rejected wallet request or a failed fetch throws: err.code 4001,
\* err.code -32002, a message containing 'user rejected', anything else.
ConnectErrors == {"4001", "-32002", "user rejected", "other"}

\* The message the catch block of connectWallet shows for an error.
ConnectErrorMessage(err) ==
    CASE err = "4001" -> "Connection request was rejected. Please try again."
      [] err = "-32002" ->
           "Connection request already pending. Please check MetaMask."
      [] err = "user rejected" ->
           "Signature request was rejected. Please try again."
      [] OTHER -> "Failed to connect wallet"

\* No Dashboard mounted, no listener registered.
NoDash == [user |-> None, account |-> "", listening |-> FALSE,
           closureAccount |-> ""]

\* Mount effect of the Dashboard (lines 20-46): without both items it
\* navigates to the login page; with them it sets user and account and
\* registers, when window.ethereum exists, a listener that calls the
\* handleAccountsChanged of this first render, in which `account` is the
\* useState default ''.  The effect depends on [navigate] only and is not
\* run again when account changes.
MountDashboard(store, eth) ==
    IF store.stellar_user = None \/ store.stellar_wallet = None
    THEN [page |-> "login", dash |-> NoDash]
    ELSE [page |-> "dashboard",
          dash |-> [user |-> store.stellar_user,
                    account |-> store.stellar_wallet,
                    listening |-> eth,
                    closureAccount |-> ""]]

\* checkIfWalletIsConnected after eth_accounts answered: with a wallet
\* account matching the saved address (case-insensitively) the dashboard is
\* opened.
LoginRedirects(store, accounts) ==
    /\ accounts # <<>>
    /\ store.stellar_user # None
    /\ store.stellar_wallet # None
    /\ ToLowerCase(store.stellar_wallet) = ToLowerCase(accounts[1])

InitSession ==
    /\ ethereum = [present |-> TRUE, accounts |-> <<>>]
    /\ localStorage = NoSession
    /\ page = "login"
    /\ login = MountLogin(FreshLogin, TRUE)
    /\ dash = NoDash

\* The user loads a route in the browser: the page starts afresh, with or
\* without a wallet extension, nothing of the former page goes on running,
\* and the mount effect of the route runs.  A dashboard without session
\* navigates to the login page.
OpenPage(route, eth, accounts) ==
    /\ eth \/ accounts = <<>>
    /\ ethereum' = [present |-> eth, accounts |-> accounts]
    /\ LET m == MountDashboard(localStorage, eth)
       IN IF route = "dashboard" /\ m.page = "dashboard"
          THEN page' = "dashboard" /\ dash' = m.dash /\ login' = FreshLogin
          ELSE /\ page' = "login" /\ dash' = NoDash
               /\ login' = MountLogin(FreshLogin, eth)
    /\ UNCHANGED <<now, notSession, localStorage>>

\* eth_accounts of checkIfWalletIsConnected settles while the Login is
\* shown: a saved session of the reported account opens the dashboard; a
\* rejection is logged only.
CheckIfWalletIsConnected(ok) ==
    /\ page = "login"
    /\ login.check = "waiting"
    /\ IF ok /\ LoginRedirects(localStorage, ethereum.accounts)
       THEN LET m == MountDashboard(localStorage, ethereum.present)
            IN /\ page' = m.page
               /\ dash' = m.dash
               /\ login' = UnmountLogin(login)
       ELSE /\ login' = [login EXCEPT !.check = "idle"]
            /\ UNCHANGED <<page, dash>>
    /\ UNCHANGED <<now, notSession, ethereum, localStorage>>

\* The Login that started the connectWallet r is the one shown.
ConnectMounted(r) == page = "login" /\ ~r.orphan

\* cleanupLoginState: account and user reset, both items removed.
CleanupLoginState(l) == [l EXCEPT !.account = "", !.user = None]

\* The catch block (or the else branch) of the connectWallet r followed by
\* the finally block: error set, state cleaned up, loading reset; of an
\* unmounted Login only the removal of the two items has an effect.
ConnectFailure(r, msg) ==
    /\ login' = IF ConnectMounted(r)
                THEN [CleanupLoginState(login) EXCEPT
                         !.error = msg, !.loading = FALSE,
                         !.runs = @ (-) SetToBag({r})]
                ELSE [login EXCEPT !.runs = @ (-) SetToBag({r})]
    /\ localStorage' = RemoveSession(localStorage)
    /\ UNCHANGED <<now, notSession, page, dash>>

\* Click on Connect Wallet (shown while account is empty, disabled while
\* loading): connectWallet up to its first await.  Without window.ethereum
\* the error is set and the function returns.
ConnectWallet ==
    /\ page = "login"
    /\ login.account = ""
    /\ ~login.loading
    /\ IF ~ethereum.present
       THEN login' = [login EXCEPT
                         !.error = "Please install MetaMask to continue",
                         !.loading = FALSE]
       ELSE /\ BagCardinality(login.runs) < MaxRuns
            /\ login' = [login EXCEPT
                  !.error = "", !.loading = TRUE,
                  !.runs = @ (+) SetToBag({ConnectRun("requestAccounts", "",
                                                      Null, FALSE)})]
    /\ UNCHANGED <<now, notSession, ethereum, localStorage, page, dash>>

\* eth_requestAccounts of the connectWallet r settles: the first account
\* becomes the account and the message to sign is built with Date.now(),
\* or the request is rejected.
ConnectAccounts(r, outcome, walletAddress) ==
    /\ r \in BagToSet(login.runs)
    /\ r.pc = "requestAccounts"
    /\ IF outcome = "ok"
       THEN /\ login' = [login EXCEPT
                  !.account = IF ConnectMounted(r) THEN walletAddress ELSE @,
                  !.runs = (@ (-) SetToBag({r}))
                             (+) SetToBag({ConnectRun("sign", walletAddress,
                                             <<"Timestamp", now>>, r.orphan)})]
            /\ ethereum' = [ethereum EXCEPT !.accounts = <<walletAddress>>]
            /\ UNCHANGED <<now, notSession, localStorage, page, dash>>
       ELSE /\ ConnectFailure(r, ConnectErrorMessage(outcome))
            /\ UNCHANGED ethereum

\* getSigner / signMessage of the connectWallet r settle.
ConnectSign(r, outcome) ==
    /\ r \in BagToSet(login.runs)
    /\ r.pc = "sign"
    /\ IF outcome = "ok"
       THEN /\ login' = [login EXCEPT
                  !.runs = (@ (-) SetToBag({r}))
                             (+) SetToBag({[r EXCEPT !.pc = "fetch"]})]
            /\ UNCHANGED <<now, notSession, ethereum, localStorage, page, dash>>
       ELSE /\ ConnectFailure(r, ConnectErrorMessage(outcome))
            /\ UNCHANGED ethereum

\* The request to /api/auth/wallet of the connectWallet r settles:
\* data.success stores both items and navigates to the dashboard (a
\* Dashboard already shown stays as it is, a Login shown is unmounted); a
\* refusal or an exception cleans up.
ConnectFetch(r, outcome) ==
    /\ r \in BagToSet(login.runs)
    /\ r.pc = "fetch"
    /\ IF outcome = "success"
       THEN /\ localStorage' = SaveSession(localStorage, r.walletAddress)
            /\ IF page = "dashboard"
               THEN /\ UNCHANGED <<page, dash>>
                    /\ login' = [login EXCEPT !.runs = @ (-) SetToBag({r})]
               ELSE LET m == MountDashboard(localStorage', ethereum.present)
                    IN /\ page' = m.page
                       /\ dash' = m.dash
                       /\ login' = UnmountLogin(
                            [login EXCEPT !.runs = @ (-) SetToBag({r})])
            /\ UNCHANGED <<now, notSession, ethereum>>
       ELSE /\ IF outcome = "refused"
               THEN ConnectFailure(r, "Authentication failed")
               ELSE ConnectFailure(r, ConnectErrorMessage("other"))
            /\ UNCHANGED ethereum

\* Click on Disconnect (shown while account is set): cleanupLoginState.
DisconnectWallet ==
    /\ page = "login"
    /\ login.account # ""
    /\ login' = CleanupLoginState(login)
    /\ localStorage' = RemoveSession(localStorage)
    /\ UNCHANGED <<now, notSession, ethereum, page, dash>>

\* handleLogout: both items removed, navigate('/').  Login mounts and its
\* mount effect runs.
Logout ==
    /\ localStorage' = RemoveSession(localStorage)
    /\ page' = "login"
    /\ dash' = NoDash
    /\ login' = MountLogin(login, ethereum.present)
    /\ UNCHANGED <<now, notSession>>

\* Click on Logout in the Dashboard.
HandleLogout ==
    /\ page = "dashboard"
    /\ Logout
    /\ UNCHANGED ethereum

\* The wallet emits accountsChanged and the registered listener runs
\* handleAccountsChanged with the `account` of its closure.
HandleAccountsChanged(accounts) ==
    /\ page = "dashboard"
    /\ dash.listening
    /\ accounts # ethereum.accounts
    /\ ethereum' = [ethereum EXCEPT !.accounts = accounts]
    /\ IF accounts = <<>>
       THEN Logout
       ELSE IF /\ dash.closureAccount # ""
               /\ ToLowerCase(accounts[1]) # ToLowerCase(dash.closureAccount)
            THEN Logout
            ELSE UNCHANGED <<now, notSession, localStorage, page, login, dash>>

\* ------------------------------------------------------------- EarnTab
\* const topPrevious = previous.slice(0, 20)
PreviousLimit == 20
\* Largest number of ended tests in the tests table.
MaxEnded == 21

\* The open EarnTabs and the wallet each was opened for.
EarnTabs == {"e1", "e2"}
TabWallet == [e \in EarnTabs |-> IF e = "e2" THEN "W2" ELSE "W1"]

\* Rows of the tests table.  Ended tests have ids 1..MaxEnded; three more
\* tests touch the borders of the run: one ends at time 0, one starts at
\* time 1, one starts after the run.  All registration counts differ.
\* One of the tests carries a custom badge (custom_badge_id, Null without),
\* two have no question count stored (total_questions 0).
EndedTest(i) ==
    [id |-> i, start_time |-> -3, end_time |-> -1,
     registration_count |-> 10 + MaxEnded - i,
     total_questions |-> 5, custom_badge_id |-> Null]
EndsAtZero == [id |-> 101, start_time |-> -1, end_time |-> 0,
               registration_count |-> 3,
               total_questions |-> 5, custom_badge_id |-> <<1>>]
StartsAtOne == [id |-> 102, start_time |-> 1, end_time |-> MaxClock + 2,
                registration_count |-> 2,
                total_questions |-> 0, custom_badge_id |-> Null]
Future == [id |-> 103, start_time |-> MaxClock + 2, end_time |-> MaxClock + 3,
           registration_count |-> 0,
           total_questions |-> 0, custom_badge_id |-> Null]

TestTables ==
    {{EndedTest(i) : i \in 1..n} \cup others :
        n \in 0..MaxEnded, others \in SUBSET {EndsAtZero, StartsAtOne, Future}}

\* supabase.from('tests').select('*').order('registration_count',
\* {ascending: false}): the rows by falling registration count (rows of
\* equal count by id).
QueryTests(table) ==
    LET Rank(r) == Cardinality({x \in table :
                       \/ x.registration_count > r.registration_count
                       \/ /\ x.registration_count = r.registration_count
                          /\ x.id < r.id}) + 1
    IN [i \in 1..Cardinality(table) |-> CHOOSE r \in table : Rank(r) = i]

\* Array.prototype.sort with a comparator on the integer key k[i] of s[i]:
\* rising keys, elements of equal key in their former order.
SortByKey(s, k) ==
    LET Rank(i) == Cardinality({j \in DOMAIN s :
                       k[j] < k[i] \/ (k[j] = k[i] /\ j < i)}) + 1
    IN [r \in DOMAIN s |-> s[CHOOSE i \in DOMAIN s : Rank(i) = r]]

\* Mutant of Classify: a test is no longer active at its end time.
Classify_StrictEnd(test, t) ==
    IF t >= test.start_time /\ t < test.end_time THEN "active"
    ELSE IF t < test.start_time THEN "upcoming"
    ELSE "previous"

\* The branch of the forEach of fetchTests a test takes at currentTime t.
Classify(test, t) ==
    IF t >= test.start_time /\ t <= test.end_time THEN "active"
    ELSE IF t < test.start_time THEN "upcoming"
    ELSE "previous"

ClassOf(tests, class, t) ==
    SelectSeq(tests, LAMBDA test : Classify(test, t) = class)

\* What the card of a test offers (renderTestCard, lines 724-746):
\* the label of its button, or the completed notice.
CardAction(status, attempted, registered) ==
    IF status = "active" /\ attempted THEN "Already Completed"
    ELSE IF status = "active" THEN "Take Test & Earn Badge"
    ELSE IF status = "upcoming"
         THEN IF registered THEN "Registered" ELSE "Register for Test"
    ELSE "Take for Practice (No Badge)"

\* An async call of a tab waiting for an answer.  f is the await it waits at:
\* "tests" (the query of fetchTests, with the `now` it captured at its start
\* and whether handleRegister called it and goes on to fetchUserData),
\* "badges" and "counts" (the custom_badges query and the Promise.all of
\* the question counts of fetchTests, with the tests it holds in `data`),
\* "attempts" and "registrations" (the two queries of fetchUserData),
\* "insert" and "update" (the two writes of handleRegister, with the test
\* and the registration count of the test in the upcomingTests of the
\* render that was clicked).
Run(f, t, chained, id, cached) ==
    [f |-> f, now |-> t, chained |-> chained, testId |-> id,
     cached |-> cached, orphan |-> FALSE, data |-> <<>>]
TestsRun(t, chained) == Run("tests", t, chained, 0, 0)
UserRun(f) == Run(f, 0, FALSE, 0, 0)

\* The calls of a tab waiting at await f.
RunsAt(tab, f) == {r \in BagToSet(tab.runs) : r.f = f}

\* The EarnTab after its mount effect started fetchTests and fetchUserData
\* at time t: useState defaults, `now` captured, no query answered yet.
MountedTab(t) ==
    [runs |-> SetToBag({TestsRun(t, FALSE), UserRun("attempts")}),
     fetched |-> <<>>, fetchedAt |-> Undefined,
     activeTests |-> <<>>, upcomingTests |-> <<>>, previousTests |-> <<>>,
     userAttempts |-> {}, userRegistrations |-> {},
     loading |-> TRUE, error |-> FALSE]

\* An upcoming test with no registration, for the runs that do not draw
\* the table.
OneUpcoming == {Future}

InitEarn(table) ==
    /\ testsTable = table
    /\ registrations = {}
    /\ earn = [e \in EarnTabs |-> MountedTab(0)]

\* The tab is opened anew: the component mounts and its mount effect starts
\* fetchTests and fetchUserData.  The queries of the former component
\* change nothing when answered; its handleRegister calls go on as orphans
\* and still write to the database.
MountEarnTab(e) ==
    /\ earn' = [earn EXCEPT ![e] =
          [MountedTab(now) EXCEPT !.runs =
             @ (+) Orphaned([r \in RunsAt(earn[e], "insert")
                                     \cup RunsAt(earn[e], "update")
                               |-> earn[e].runs[r]])]]
    /\ UNCHANGED <<now, notEarn, testsTable, registrations>>

\* testsWithBadges: each test with custom_badge, the rows of the map for
\* its custom_badge_id (none when the test has no id or the map no entry:
\* null and undefined, both falsy).
AttachBadges(tests, badgesData) ==
    [i \in DOMAIN tests |->
        [custom_badge |-> {b \in badgesData :
                             <<b.id>> = tests[i].custom_badge_id}]
          @@ tests[i]]

\* fetchTests after an await from the custom badges on.  A rejected await
\* goes to the catch block (setError); tests without a question count wait
\* for the Promise.all of their count queries; otherwise the tests are
\* sorted into three arrays by the `now` captured at the start, active by
\* falling registration count, upcoming by start time, previous cut to
\* its first 20, and the lists are set.  `finally` ends loading, and a
\* fetchTests called by handleRegister is followed by fetchUserData.
FetchTestsResume(tab, r, outcome, tests) ==
    LET end == [tab EXCEPT
                  !.runs = (@ (-) SetToBag({r}))
                             (+) (IF r.chained
                                  THEN SetToBag({UserRun("attempts")})
                                  ELSE EmptyBag),
                  !.loading = FALSE]
        uncounted == {i \in DOMAIN tests : tests[i].total_questions = 0}
        active == ClassOf(tests, "active", r.now)
        upcoming == ClassOf(tests, "upcoming", r.now)
        previous == ClassOf(tests, "previous", r.now)
    IN CASE outcome = "rejects" -> [end EXCEPT !.error = TRUE]
         [] outcome = "attached" /\ uncounted # {} ->
              [tab EXCEPT !.runs = (@ (-) SetToBag({r}))
                  (+) SetToBag({[r EXCEPT !.f = "counts", !.data = tests]})]
         [] OTHER ->
              [end EXCEPT
                 !.activeTests = SortByKey(active,
                     [i \in DOMAIN active |-> -active[i].registration_count]),
                 !.upcomingTests = SortByKey(upcoming,
                     [i \in DOMAIN upcoming |-> upcoming[i].start_time]),
                 !.previousTests = SubSeq(previous, 1,
                     IF Len(previous) < PreviousLimit THEN Len(previous)
                     ELSE PreviousLimit)]

\* The tests query of a fetchTests settles.  An error or a rejection goes
\* to the catch block.  With data the call goes on to the custom_badges
\* query when a test has a custom_badge_id, and past it when none has.
\* fetched and fetchedAt keep the tests answered and the `now` of the call.
FetchTests(e, r, ok) ==
    /\ r \in RunsAt(earn[e], "tests")
    /\ LET allTests == QueryTests(testsTable)
           tab == [earn[e] EXCEPT !.fetched = allTests, !.fetchedAt = r.now]
       IN earn' = [earn EXCEPT ![e] =
             IF ~ok THEN FetchTestsResume(earn[e], r, "rejects", <<>>)
             ELSE IF \E i \in DOMAIN allTests :
                        allTests[i].custom_badge_id # Null
             THEN [tab EXCEPT !.runs = (@ (-) SetToBag({r}))
                     (+) SetToBag({[r EXCEPT !.f = "badges",
                                             !.data = allTests]})]
             ELSE FetchTestsResume(tab, r, "attached",
                                   AttachBadges(allTests, {}))]
    /\ UNCHANGED <<now, notEarn, testsTable, registrations>>

\* The custom_badges query of a fetchTests settles: with data the badges
\* of the ids asked for are attached to their tests, with an error answer
\* (not looked at) none is; a rejection goes to the catch block.
FetchTestsBadges(e, r, outcome) ==
    /\ r \in RunsAt(earn[e], "badges")
    /\ earn' = [earn EXCEPT ![e] =
          IF outcome = "rejects"
          THEN FetchTestsResume(@, r, "rejects", <<>>)
          ELSE FetchTestsResume(@, r, "attached",
                  AttachBadges(r.data,
                     IF outcome = "data"
                     THEN {[id |-> b.id, svg_url |-> b.svg_url] :
                              b \in customBadgesTable.rows}
                     ELSE {}))]
    /\ UNCHANGED <<now, notEarn, testsTable, registrations>>

\* The Promise.all of the question counts of a fetchTests settles: each
\* test without a count gets `count || 0` of its own query (counts[i] for
\* the test at place i); one rejected query goes to the catch block.
FetchTestsCounts(e, r, ok, counts) ==
    /\ r \in RunsAt(earn[e], "counts")
    /\ earn' = [earn EXCEPT ![e] =
          IF ok
          THEN FetchTestsResume(@, r, "counted",
                  [i \in DOMAIN r.data |->
                      IF r.data[i].total_questions = 0
                      THEN [r.data[i] EXCEPT !.total_questions = counts[i]]
                      ELSE r.data[i]])
          ELSE FetchTestsResume(@, r, "rejects", <<>>)]
    /\ UNCHANGED <<now, notEarn, testsTable, registrations>>

\* The attempts query of a fetchUserData settles: with data the attempted
\* tests are set; without (an error answer) they are left; the call goes on
\* to the registrations query unless the await threw.
FetchUserAttempts(e, outcome) ==
    /\ UserRun("attempts") \in RunsAt(earn[e], "attempts")
    /\ earn' = [earn EXCEPT ![e] =
          [@ EXCEPT
             !.runs = (@ (-) SetToBag({UserRun("attempts")}))
                        (+) (IF outcome = "throws" THEN EmptyBag
                             ELSE SetToBag({UserRun("registrations")})),
             !.userAttempts =
                 IF outcome = "data"
                 THEN {a.test_id : a \in {x \in attemptsTable :
                          x.candidate_wallet = TabWallet[e]}}
                 ELSE @]]
    /\ UNCHANGED <<now, notEarn, testsTable, registrations>>

\* The registrations query of a fetchUserData settles: with data the
\* registered tests are set, otherwise they are left as they were.
FetchUserRegistrations(e, ok) ==
    /\ UserRun("registrations") \in RunsAt(earn[e], "registrations")
    /\ earn' = [earn EXCEPT ![e] =
          [@ EXCEPT
             !.runs = @ (-) SetToBag({UserRun("registrations")}),
             !.userRegistrations =
                 IF ok
                 THEN {x.test_id : x \in {y \in registrations :
                          y.wallet_address = TabWallet[e]}}
                 ELSE @]]
    /\ UNCHANGED <<now, notEarn, testsTable, registrations>>

\* The ids of the tests of a list.
IdsOf(list) == {list[i].id : i \in DOMAIN list}

\* The registration count the tab holds for a test of its upcoming list.
CachedCount(tab, id) ==
    LET u == tab.upcomingTests
    IN u[CHOOSE i \in DOMAIN u : u[i].id = id].registration_count

\* Click on Register for Test on the card of an upcoming test (rendered
\* when neither loading nor error, disabled once the test is among the
\* registrations the tab holds): handleRegister up to its first await.
HandleRegister(e, id) ==
    /\ ~earn[e].loading /\ ~earn[e].error
    /\ id \in IdsOf(earn[e].upcomingTests)
    /\ id \notin earn[e].userRegistrations
    /\ BagCardinality(earn[e].runs) < MaxRuns
    /\ earn' = [earn EXCEPT ![e].runs =
          @ (+) SetToBag({Run("insert", 0, FALSE, id,
                              CachedCount(earn[e], id))})]
    /\ UNCHANGED <<now, notEarn, testsTable, registrations>>

\* The insert into test_registrations settles: a row of the same test and
\* wallet makes it a duplicate (alert, return), another error is thrown to
\* the catch block.
RegisterInsert(e, r, ok) ==
    /\ r \in RunsAt(earn[e], "insert")
    /\ LET row == [test_id |-> r.testId, wallet_address |-> TabWallet[e]]
           rest == earn[e].runs (-) SetToBag({r})
       IN IF row \notin registrations /\ ok
          THEN /\ registrations' = registrations \cup {row}
               /\ earn' = [earn EXCEPT ![e].runs =
                     rest (+) SetToBag({[r EXCEPT !.f = "update"]})]
          ELSE /\ UNCHANGED registrations
               /\ earn' = [earn EXCEPT ![e].runs = rest]
    /\ UNCHANGED <<now, notEarn, testsTable>>

\* supabase.from('tests').update({registration_count:
\*   (test.registration_count || 0) + 1}).eq('id', testId)
UpdateRegistrationCount(table, id, cached) ==
    {IF r.id = id THEN [r EXCEPT !.registration_count = cached + 1] ELSE r :
        r \in table}

\* The update of the count settles: written, or answered with an error that
\* is not looked at, and then fetchTests starts (loading, `now` captured);
\* or the await throws to the catch block.  The fetchTests of a call whose
\* component was unmounted changes nothing.
RegisterUpdate(e, r, outcome) ==
    /\ r \in RunsAt(earn[e], "update")
    /\ testsTable' = IF outcome = "ok"
                     THEN UpdateRegistrationCount(testsTable, r.testId,
                                                  r.cached)
                     ELSE testsTable
    /\ earn' = [earn EXCEPT ![e] =
          IF outcome = "throws" \/ r.orphan
          THEN [@ EXCEPT !.runs = @ (-) SetToBag({r})]
          ELSE [@ EXCEPT
                  !.runs = (@ (-) SetToBag({r}))
                             (+) SetToBag({TestsRun(now, TRUE)}),
                  !.loading = TRUE]]
    /\ UNCHANGED <<now, notEarn, registrations>>

\* ----------------------------------------------------------- ProfileTab
\* The user the ProfileTab is open for.
userId == "U1"

\* `badges/${userId}_${Date.now()}.svg`
BadgePath(user, t) == <<"badges/", user, "_", t, ".svg">>

\* supabase.storage.from('stellar').getPublicUrl(filePath)
BadgePublicUrl(filePath) == <<"/storage/v1/object/public", "/stellar/", filePath>>

\* svgUrl.split('/stellar/')[1], Null when the url has no such part.
FilePathOf(svgUrl) ==
    IF Len(svgUrl) > 2 /\ svgUrl[2] = "/stellar/" THEN svgUrl[3] ELSE Null

\* The rows of custom_badges of a user (fetchCustomBadges).
BadgesOf(table, user) == {r \in table.rows : r.user_id = user}

\* An async call of the ProfileTab waiting for an answer.  f is the await it
\* waits at: "select" (the query of fetchCustomBadges; caller is the mount
\* effect, handleUploadBadge or handleDeleteBadge), "store" and "insert"
\* (handleUploadBadge, with the file path), "remove" and "delete"
\* (handleDeleteBadge, with the id and the url of the badge).
ProfileRun(f, caller, filePath, badgeId, svgUrl) ==
    [f |-> f, caller |-> caller, filePath |-> filePath,
     badgeId |-> badgeId, svgUrl |-> svgUrl]

\* The calls of the tab waiting at one of the awaits fs.
ProfileRunsAt(fs) == {r \in BagToSet(profile.runs) : r.f \in fs}

\* An empty bucket and table, and the ProfileTab after its mount effect
\* started fetchCustomBadges: useState defaults, loading.
InitProfile ==
    /\ bucket = {}
    /\ customBadgesTable = [rows |-> {}, nextId |-> 1]
    /\ profile =
         [badgeName |-> FALSE, svgFile |-> FALSE, customBadges |-> {},
          loading |-> TRUE, uploading |-> FALSE, error |-> None,
          success |-> None,
          runs |-> SetToBag({ProfileRun("select", "mount", Null, 0, Null)})]

\* onChange of the name input: the name is empty (after trim) or not.
ChangeBadgeName(named) ==
    /\ named # profile.badgeName
    /\ profile' = [profile EXCEPT !.badgeName = named]
    /\ UNCHANGED <<now, notProfile, bucket, customBadgesTable>>

\* handleFileChange: a file that is no svg or is larger than 1MB sets the
\* error; a valid one is kept and the error is cleared.
HandleFileChange(kind) ==
    /\ profile' =
         CASE kind = "not_svg" ->
                [profile EXCEPT !.error = "Please upload an SVG file"]
           [] kind = "too_big" ->
                [profile EXCEPT !.error = "File size must be less than 1MB"]
           [] OTHER -> [profile EXCEPT !.svgFile = TRUE, !.error = None]
    /\ UNCHANGED <<now, notProfile, bucket, customBadgesTable>>

\* fetchCustomBadges up to its await: loading, error cleared.
StartFetchCustomBadges(p, caller) ==
    [p EXCEPT !.loading = TRUE, !.error = None,
              !.runs = @ (+) SetToBag({ProfileRun("select", caller,
                                                     Null, 0, Null)})]

\* The select of a fetchCustomBadges settles: the list is replaced by the
\* rows of the user, or the error is shown; loading ends.  The finally of
\* the handler that awaited it runs after it.
FetchCustomBadges(r, ok) ==
    /\ r \in ProfileRunsAt({"select"})
    /\ profile' = [profile EXCEPT
          !.runs = @ (-) SetToBag({r}),
          !.customBadges = IF ok THEN BadgesOf(customBadgesTable, userId)
                                 ELSE @,
          !.error = IF ok THEN @ ELSE "err.message",
          !.loading = FALSE,
          !.uploading = IF r.caller = "upload" THEN FALSE ELSE @]
    /\ UNCHANGED <<now, notProfile, bucket, customBadgesTable>>

\* Click on the upload button (enabled when a name and a file are given and
\* no upload is running): handleUploadBadge up to the storage upload.
HandleUploadBadge ==
    /\ ~profile.uploading
    /\ profile.badgeName /\ profile.svgFile
    /\ customBadgesTable.nextId <= MaxCalls
    /\ profile' = [profile EXCEPT
          !.uploading = TRUE, !.error = None, !.success = None,
          !.runs = @ (+) SetToBag({ProfileRun("store", "upload",
                                      BadgePath(userId, now), 0, Null)})]
    /\ UNCHANGED <<now, notProfile, bucket, customBadgesTable>>

\* The storage upload with upsert: false settles: a path already in the
\* bucket is refused, an error is thrown to the catch; finally.
UploadBadgeFile(r, ok) ==
    /\ r \in ProfileRunsAt({"store"})
    /\ IF ok /\ r.filePath \notin bucket
       THEN /\ bucket' = bucket \cup {r.filePath}
            /\ profile' = [profile EXCEPT !.runs =
                  (@ (-) SetToBag({r}))
                    (+) SetToBag({[r EXCEPT !.f = "insert"]})]
       ELSE /\ UNCHANGED bucket
            /\ profile' = [profile EXCEPT !.runs = @ (-) SetToBag({r}),
                                          !.error = "err.message",
                                          !.uploading = FALSE]
    /\ UNCHANGED <<now, notProfile, customBadgesTable>>

\* supabase.from('custom_badges').insert({user_id, badge_name, svg_url})
InsertBadgeRow(table, user, svgUrl) ==
    [rows |-> table.rows \cup
                {[id |-> table.nextId, user_id |-> user, svg_url |-> svgUrl]},
     nextId |-> table.nextId + 1]

\* The insert of the row settles: after a success the form is reset and
\* fetchCustomBadges starts; an error is thrown to the catch; finally.
InsertBadge(r, ok) ==
    /\ r \in ProfileRunsAt({"insert"})
    /\ IF ok
       THEN /\ customBadgesTable' =
                 InsertBadgeRow(customBadgesTable, userId,
                                BadgePublicUrl(r.filePath))
            /\ profile' = StartFetchCustomBadges(
                  [profile EXCEPT
                     !.runs = @ (-) SetToBag({r}),
                     !.success = "Badge created successfully!",
                     !.badgeName = FALSE, !.svgFile = FALSE],
                  "upload")
       ELSE /\ UNCHANGED customBadgesTable
            /\ profile' = [profile EXCEPT !.runs = @ (-) SetToBag({r}),
                                          !.error = "err.message",
                                          !.uploading = FALSE]
    /\ UNCHANGED <<now, notProfile, bucket>>

\* Click on the delete button of a listed badge (enabled when not loading),
\* confirmed: handleDeleteBadge up to its first await.
HandleDeleteBadge(badge) ==
    /\ ~profile.loading
    /\ badge \in profile.customBadges
    /\ BagCardinality(profile.runs) < MaxRuns
    /\ profile' = [profile EXCEPT
          !.loading = TRUE,
          !.runs = @ (+) SetToBag({ProfileRun(
                      IF FilePathOf(badge.svg_url) # Null THEN "remove"
                                                          ELSE "delete",
                      "delete", Null, badge.id, badge.svg_url)})]
    /\ UNCHANGED <<now, notProfile, bucket, customBadgesTable>>

\* supabase.storage.from('stellar').remove([filePath]) settles; its answer
\* is not looked at; an await that throws ends in the catch and finally.
RemoveBadgeFile(r, outcome) ==
    /\ r \in ProfileRunsAt({"remove"})
    /\ bucket' = IF outcome = "ok" THEN bucket \ {FilePathOf(r.svgUrl)}
                                   ELSE bucket
    /\ profile' = IF outcome = "throws"
                  THEN [profile EXCEPT !.runs = @ (-) SetToBag({r}),
                                       !.error = "err.message",
                                       !.loading = FALSE]
                  ELSE [profile EXCEPT !.runs =
                          (@ (-) SetToBag({r}))
                            (+) SetToBag({[r EXCEPT !.f = "delete"]})]
    /\ UNCHANGED <<now, notProfile, customBadgesTable>>

\* The delete of the row settles: after a success fetchCustomBadges starts;
\* an error is thrown to the catch; finally.
DeleteBadgeRow(r, ok) ==
    /\ r \in ProfileRunsAt({"delete"})
    /\ IF ok
       THEN /\ customBadgesTable' =
                 [customBadgesTable EXCEPT
                    !.rows = {x \in @ : x.id # r.badgeId}]
            /\ profile' = StartFetchCustomBadges(
                  [profile EXCEPT
                     !.runs = @ (-) SetToBag({r}),
                     !.success = "Badge deleted successfully"],
                  "delete")
       ELSE /\ UNCHANGED customBadgesTable
            /\ profile' = [profile EXCEPT !.runs = @ (-) SetToBag({r}),
                                          !.error = "err.message",
                                          !.loading = FALSE]
    /\ UNCHANGED <<now, notProfile, bucket>>

\* ---------------------------------------------------------- specifications
\* State after start-up: no invocation, request or upload has happened.
InitBackend ==
    /\ now = 0
    /\ lpc = "idle"
    /\ lop = "register"
    /\ lsigner = FALSE
    /\ largs = CHOOSE a \in RegisterArgs : TRUE
    /\ laccount = None
    /\ lstatus = None
    /\ lattempts = 0
    /\ ltxHash = Null
    /\ lsimulated = None
    /\ lsubmit = None
    /\ lnet = NoNet
    /\ lresult = NoResult
    /\ registry = [t \in TestIds |-> Null]
    /\ regLog = <<>>
    /\ req = [q \in Slots |-> IdleReq]
    /\ storage = [k \in StorageKeys |-> {}]
    /\ attemptsTable = AttemptRows
    /\ gen = IdleGen
    /\ genLog = <<>>
    /\ InitSession
    /\ InitProfile

\* The BadgesTab as constructed: useState defaults, the fetch of the mount
\* effect not yet settled.
InitTab ==
    /\ groupedBadges = {}
    /\ loading = TRUE
    /\ error = FALSE
    /\ mintingBadgeId = None
    /\ retry = [p \in RetryIds |-> IdleRetry]

Init ==
    /\ InitBackend
    /\ badges = {PendingBadge(b, Null) : b \in BadgeIds}
    /\ InitTab
    /\ InitEarn(OneUpcoming)

\* The ledger client, one invocation after the other.
NextLedger ==
    \/ Tick
    \/ \E a \in RegisterArgs, s, c \in BOOLEAN :
          LedgerCall("register", a, s, c)
    \/ \E a \in [receiver : Wallets, testId : TestIds,
                  metadataUri : {<<"badge-metadata", "T1", "W1">>}],
          s, c \in BOOLEAN : LedgerCall("mint", a, s, c)
    \/ \E outcome \in {"ok", "rejects", "build_throws"} :
          LedgerGetAccount(outcome)
    \/ \E outcome \in {"ok", "error", "rejects"} :
          LedgerSimulate(outcome)
    \* the statuses sendTransaction can answer with
    \* or the call rejects
    \/ \E st \in {"PENDING", "DUPLICATE", "TRY_AGAIN_LATER", "ERROR",
                   "rejects"},
          h \in ChainHashes : LedgerSend(st, h)
    \* the statuses getTransaction can answer with; the loop of the code
    \* compares against 'PENDING'
    \/ \E st \in {"PENDING", "NOT_FOUND", "SUCCESS", "FAILED"} : LedgerPoll(st)
    \/ LedgerPollThrows
    \/ LedgerPollExit
    \* what getTransaction can hold when the token id is extracted
    \/ \E o \in {"rpc_throws", "not_success", "no_meta", "no_retval",
                  "decode_throws", "decoded"},
          d \in ChainTokenIds : LedgerExtract(o, d)
    \/ LedgerReturn

SpecLedger == Init /\ [][NextLedger]_vars


\* The ledger client serving read-only calls.
NextRead ==
    \/ Tick
    \/ \E op \in ReadOps : \E a \in ReadArgs(op) : \E k \in RandomKeys :
          \E c \in BOOLEAN : ReadCall(op, a, k, c)
    \/ \E ok \in BOOLEAN : ReadGetAccount(ok)
    \* How the simulation can end: simulateTransaction rejects, it reports a
    \* simulation error, it has no result, scValToNative throws, the decoded
    \* value is empty (undefined, or no array for the list), or it is a
    \* value: a test record, or a token uri (the empty tuple is '').
    \/ \E o \in {"throws", "sim_error", "no_result", "decode_throws",
                  "empty", "value"},
          r \in {[test_id |-> "T1", creator |-> "W1",
                  metadata_cid |-> "cid1", created_at |-> 0]},
          u \in {<<"badge-metadata", "T1", "W1">>, <<>>} :
          ReadSimulate(o, r, u)
    \/ LedgerReturn

SpecRead == Init /\ [][NextRead]_vars

\* The register-test endpoint serving requests.
NextRegister ==
    \/ Tick
    \/ \E b \in RegisterBodies : RegisterTest(b)

SpecRegister == Init /\ [][NextRegister]_vars

\* The mint-nft endpoint serving concurrent direct clients.
NextMint ==
    \/ Tick
    \* Request bodies; testTitle, score and totalScore only reach the
    \* metadata document.
    \/ \E q \in ReqIds, b \in [receiver : Wallets \cup {Missing},
                                testId : TestIds \cup {Missing}] :
          ClientMint(q, b)
    \/ \E q \in ReqIds, ok \in BOOLEAN : ClientMintUpload(q, ok)
    \/ \E q \in ReqIds : ClientTake(q)

SpecMint == Init /\ [][NextMint]_vars

\* The backend services, a run exercising either the ledger client or the
\* mint-nft endpoint (the two share no state).
NextServices ==
    \/ /\ \A q \in Slots : req[q].pc = "idle"
       /\ \A k \in StorageKeys : storage[k] = {}
       /\ NextLedger
    \/ /\ lpc = "idle" /\ lresult = NoResult
       /\ NextMint

SpecServices == Init /\ [][NextServices]_vars

\* The metadata object of either copy of generateBadgeMetadataUri in
\* sorobanSimple.ts (lines 181-269 and 466-523), for every combination of
\* arguments.
NextAttributes ==
    \E version \in {1, 2}, in \in GenInputs : BuildMetadata(version, in)

SpecAttributes == Init /\ [][NextAttributes]_vars

\* generateBadgeMetadataUri called again and again for test T1, without
\* scores and with 8 of 10, the calls overlapping in every way.
NextUpload ==
    \/ Tick
    \/ \E in \in {x \in GenInputs :
                    /\ x.testId = "T1"
                    /\ x.testTitle = Missing
                    /\ <<x.score, x.totalScore>>
                         \in {<<Undefined, Undefined>>, <<8, 10>>}} :
          GenerateBadgeMetadataUri(in)
    \/ \E i \in DOMAIN genLog, ok \in BOOLEAN : GenUpload(i, ok)
    \/ \E i \in DOMAIN genLog, outcome \in {"found", "empty", "rejects"} :
          GenList(i, outcome)

SpecUpload == Init /\ [][NextUpload]_vars

\* The Login and Dashboard pages of one browser.
NextSession ==
    \/ \E route \in {"login", "dashboard"}, eth \in BOOLEAN,
          accounts \in AccountLists : OpenPage(route, eth, accounts)
    \/ \E ok \in BOOLEAN : CheckIfWalletIsConnected(ok)
    \/ ConnectWallet
    \/ Tick
    \/ \E r \in BagToSet(login.runs), outcome \in {"ok"} \cup ConnectErrors,
          a \in Addresses : ConnectAccounts(r, outcome, a)
    \/ \E r \in BagToSet(login.runs), outcome \in {"ok"} \cup ConnectErrors :
          ConnectSign(r, outcome)
    \/ \E r \in BagToSet(login.runs),
          outcome \in {"success", "refused", "throws"} :
          ConnectFetch(r, outcome)
    \/ DisconnectWallet
    \/ HandleLogout
    \/ \E accounts \in AccountLists : HandleAccountsChanged(accounts)

SpecSession == Init /\ [][NextSession]_vars

\* One EarnTab over a tests table of any content.
InitClassify ==
    /\ InitBackend
    /\ badges = {PendingBadge(b, Null) : b \in BadgeIds}
    /\ InitTab
    /\ \E table \in TestTables : InitEarn(table)

NextClassify ==
    \/ Tick
    \/ MountEarnTab("e1")
    \/ \E r \in BagToSet(earn["e1"].runs), ok \in BOOLEAN :
          FetchTests("e1", r, ok)
    \/ \E r \in BagToSet(earn["e1"].runs),
          outcome \in {"data", "error", "rejects"} :
          FetchTestsBadges("e1", r, outcome)
    \/ \E r \in BagToSet(earn["e1"].runs), ok \in BOOLEAN :
          \E counts \in [{i \in DOMAIN r.data :
                            r.data[i].total_questions = 0} -> {0, 2}] :
             FetchTestsCounts("e1", r, ok, counts)
    \/ \E outcome \in {"data", "error", "throws"} :
          FetchUserAttempts("e1", outcome)
    \/ \E ok \in BOOLEAN : FetchUserRegistrations("e1", ok)

SpecClassify == InitClassify /\ [][NextClassify]_vars

\* The EarnTabs of two wallets registering for an upcoming test.
NextRegistration ==
    \/ \E e \in EarnTabs : \E r \in BagToSet(earn[e].runs), ok \in BOOLEAN :
          FetchTests(e, r, ok)
    \* (the test of this run has no custom badge: no custom_badges query)
    \/ \E e \in EarnTabs : \E r \in BagToSet(earn[e].runs), ok \in BOOLEAN :
          FetchTestsCounts(e, r, ok, [i \in DOMAIN r.data |-> 2])
    \/ \E e \in EarnTabs, outcome \in {"data", "error", "throws"} :
          FetchUserAttempts(e, outcome)
    \/ \E e \in EarnTabs, ok \in BOOLEAN : FetchUserRegistrations(e, ok)
    \/ \E e \in EarnTabs : MountEarnTab(e)
    \/ \E e \in EarnTabs, id \in IdsOf(QueryTests(testsTable)) :
          HandleRegister(e, id)
    \/ \E e \in EarnTabs : \E r \in BagToSet(earn[e].runs), ok \in BOOLEAN :
          RegisterInsert(e, r, ok)
    \/ \E e \in EarnTabs : \E r \in BagToSet(earn[e].runs),
          outcome \in {"ok", "error", "throws"} : RegisterUpdate(e, r, outcome)

SpecRegistration == Init /\ [][NextRegistration]_vars

\* The ProfileTab of one user: uploads and deletions of custom badges, every
\* storage and database step failing or not.
NextProfile ==
    \/ Tick
    \/ \E named \in BOOLEAN : ChangeBadgeName(named)
    \/ \E kind \in {"not_svg", "too_big", "svg"} : HandleFileChange(kind)
    \/ \E r \in BagToSet(profile.runs), ok \in BOOLEAN :
          FetchCustomBadges(r, ok)
    \/ HandleUploadBadge
    \/ \E r \in BagToSet(profile.runs), ok \in BOOLEAN :
          UploadBadgeFile(r, ok)
    \/ \E r \in BagToSet(profile.runs), ok \in BOOLEAN : InsertBadge(r, ok)
    \/ \E badge \in profile.customBadges : HandleDeleteBadge(badge)
    \/ \E r \in BagToSet(profile.runs),
          outcome \in {"ok", "error", "throws"} : RemoveBadgeFile(r, outcome)
    \/ \E r \in BagToSet(profile.runs), ok \in BOOLEAN :
          DeleteBadgeRow(r, ok)

SpecProfile == Init /\ [][NextProfile]_vars

\* The BadgesTab of one wallet with its pending badges, and the backend
\* serving its retries.
InitRetry ==
    /\ InitBackend
    /\ \E withUrl \in BOOLEAN :
         badges = {PendingBadge(b, IF withUrl
                                   THEN PublicUrl(StorageKey(BadgeTest[b], WalletAddress))
                                   ELSE Null) : b \in BadgeIds}
    /\ InitTab
    /\ InitEarn(OneUpcoming)

NextRetry ==
    \/ Tick
    \/ \E ok \in BOOLEAN : FetchUserBadgesAndAttempts(ok)
    \/ \E p \in RetryIds : \E badge \in groupedBadges : RetryMintNFT(p, badge)
    \/ \E p \in RetryIds : BackendMintArrive(p)
    \/ \E p \in RetryIds : RetryMintUnreached(p)
    \/ \E p \in RetryIds, ok \in BOOLEAN : BackendMintUpload(p, ok)
    \/ \E p \in RetryIds, d \in BOOLEAN : RetryMintSettled(p, d)
    \/ \E p \in RetryIds, ok \in BOOLEAN : RetryUpdate(p, ok)
    \/ \E p \in RetryIds, ok \in BOOLEAN : RetryFetchRead(p, ok)
    \/ \E p \in RetryIds, ok \in BOOLEAN : RetryFetchDone(p, ok)

SpecRetry == InitRetry /\ [][NextRetry]_vars

\* Calls of slot p that work on badge b.
RetryOf(p, b) == retry[p].pc # "idle" /\ retry[p].badge.id = b

\* The user clicks the retry button of badge b.
ClickRetry(b) ==
    \E p \in RetryIds : \E badge \in groupedBadges :
        badge.id = b /\ RetryMintNFT(p, badge)

\* mintNFTViaBackend resolves for the call of slot p.
RetryMintResolved(p) ==
    /\ req[p].pc = "done"
    /\ req[p].resp.status = 200
    /\ RetryMintSettled(p, TRUE)

\* For each badge the request of the mint, the backend mint, the delivery
\* of its response and the row update do not fail for ever: tried again
\* and again, each succeeds at some time.
RetryFairness ==
    \A b \in BadgeIds :
         /\ SF_vars(\E p \in RetryIds : RetryOf(p, b) /\ BackendMintArrive(p))
         /\ SF_vars(\E p \in RetryIds : RetryOf(p, b) /\ BackendMintUpload(p, TRUE))
         /\ SF_vars(\E p \in RetryIds : RetryOf(p, b) /\ RetryMintResolved(p))
         /\ SF_vars(\E p \in RetryIds : RetryOf(p, b) /\ RetryUpdate(p, TRUE))

LiveSpecRetry == InitRetry /\ [][NextRetry]_vars /\ RetryFairness

\* ======================================================================
\* Properties of the ledger client (checked under SpecLedger)
\* ======================================================================

\* The invocation has finished (returned or thrown).
LedgerFinished == lpc \in {"done", "failed"}

\* Prefixes the no-signer path puts on its txHash and tokenId.
SimTxMarker == Marker(SimTxHash(0, "r1"))
SimTokenMarker == Marker(NoSignerTokenId(0, "r1"))

\* C5: without a signer the ledger client returns success with no network
\* call, and its txHash / tokenId carry a simulation marker that no result
\* of the signed path carries (the signed path's fallback token id included).
C5_NoSignerReservedMarker ==
    /\ (lpc = "done" /\ ~lsigner) =>
          /\ lnet = NoNet
          /\ lresult.success
          /\ Marker(lresult.txHash) = SimTxMarker
          /\ (lop = "mint" => Marker(lresult.tokenId) = SimTokenMarker)
    /\ (lpc = "done" /\ lsigner) =>
          /\ Marker(lresult.txHash) # SimTxMarker
          /\ (lop = "mint" => Marker(lresult.tokenId) # SimTokenMarker)

\* The three failure cases of a signed registration named by C9: the
\* simulation reports an error (or the call rejects), the submit answers
\* ERROR (or the call rejects), the polling ends without SUCCESS.
RegSimulationError == lsimulated \in {"error", "rejects"}
RegSubmitError == lnet.sendTransaction = 1 /\ lsubmit \in {None, "ERROR"}
RegPollNoSuccess == lsubmit \notin {None, "ERROR"} /\ lstatus # "SUCCESS"

\* C9: a signed registerTestOnChain whose simulation reports an error, whose
\* submit answers ERROR, or whose polling ends without SUCCESS (exhaustion
\* included) throws, returns no success=true result, and leaves the record
\* store as it was; so does one whose simulation or submit call rejects.
C9_RegistrationNoPartialWrite ==
    (/\ lop = "register" /\ lsigner /\ LedgerFinished
     /\ (RegSimulationError \/ RegSubmitError \/ RegPollNoSuccess))
    => /\ lpc = "failed"
       /\ lresult.success = FALSE
       /\ Marker(lresult.error) = "Blockchain registration failed"
       /\ registry = [t \in TestIds |-> Null]

\* C9 witness: a signed registration failed after all 30 polls answered
\* PENDING.
C9_Witness ==
    /\ lop = "register" /\ lsigner /\ lpc = "failed"
    /\ lsubmit = "PENDING" /\ lstatus = "PENDING" /\ lattempts = maxAttempts

\* The polling loop was left through its condition (not through a throw).
LoopExited ==
    \/ lpc \in {"extract", "done"}
    \/ /\ lpc = "failed"
       /\ Len(lresult.error) >= 2
       /\ lresult.error[2] = "Transaction failed with status"

\* C10: after a submit answered PENDING the signed path makes at most 30
\* polls, leaves the loop before the 30th poll only on SUCCESS or FAILED,
\* and fails when 30 polls passed without SUCCESS.
C10_PollUntilFinal ==
    lsigner =>
      /\ lattempts <= maxAttempts
      /\ (lsubmit = "PENDING" /\ LoopExited) =>
            (lstatus \in {"SUCCESS", "FAILED"} \/ lattempts = maxAttempts)
      /\ (lsubmit = "PENDING" /\ LoopExited /\ lattempts = maxAttempts
            /\ lstatus # "SUCCESS") => lpc = "failed"

\* ======================================================================
\* Properties of the register-test endpoint (checked under SpecRegister)
\* ======================================================================

\* C1: two registrations with the same valid (testId, creator, metadataCid)
\* return the same txHash, and the registry reference of that testId has
\* been written (once).
C1_RegistrationIdempotent ==
    \A i \in DOMAIN regLog : \A j \in DOMAIN regLog :
        (i < j /\ regLog[i].body = regLog[j].body /\ regLog[i].resp.status = 200)
        => /\ regLog[j].resp.status = 200
           /\ regLog[j].resp.data.txHash = regLog[i].resp.data.txHash
           /\ registry[regLog[i].body.testId] = regLog[i].resp.data.txHash


\* ======================================================================
\* Properties of the mint-nft endpoint (checked under SpecMint)
\* ======================================================================

\* At most one badge row per (test, owner).
OneBadgePerPair(rows) ==
    \A r1 \in rows : \A r2 \in rows :
        (r1.test_id = r2.test_id /\ r1.wallet_address = r2.wallet_address)
        => r1.id = r2.id

\* Request r arrived after q had been answered, and both are answered.
Sequential(q, r) ==
    /\ q # r
    /\ req[q].pc = "done" /\ req[r].pc = "done"
    /\ q \in req[r].after

\* Requests q and r overlapped in time, and both are answered.
Concurrent(q, r) ==
    /\ q # r
    /\ req[q].pc = "done" /\ req[r].pc = "done"
    /\ q \notin req[r].after /\ r \notin req[q].after

Minted(q) == req[q].pc = "done" /\ req[q].resp.status = 200

\* C2: of two sequential successful issuance requests for the same
\* (testId, receiver) the second returns the token id the first produced
\* without minting again (same transaction), and there is at most one badge
\* row for the pair.
C2_IssuanceIdempotent ==
    /\ OneBadgePerPair(badges)
    /\ \A q \in ReqIds : \A r \in ReqIds :
         (Sequential(q, r) /\ req[q].body = req[r].body /\ Minted(q) /\ Minted(r))
         => /\ req[r].resp.data.tokenId = req[q].resp.data.tokenId
            /\ req[r].resp.data.txHash = req[q].resp.data.txHash

\* C3: an issuance request for a test outside its active window (a practice
\* attempt) is refused: the response is no success and carries no token id.
C3_PracticeNeverMints ==
    \A q \in ReqIds :
        (/\ req[q].pc = "done"
         /\ ~Falsy(req[q].body.testId)
         /\ ~Falsy(req[q].body.receiver)
         /\ ~IsActive(TestWindow[req[q].body.testId], now))
        => /\ req[q].resp.status # 200
           /\ "data" \notin DOMAIN req[q].resp

\* C4: two concurrent issuance requests for the same (testId, receiver) that
\* both succeed are one mint: the same token id and the same transaction.
C4_ConcurrentIssuanceSerialized ==
    \A q \in ReqIds : \A r \in ReqIds :
        (Concurrent(q, r) /\ req[q].body = req[r].body /\ Minted(q) /\ Minted(r))
        => /\ req[r].resp.data.tokenId = req[q].resp.data.tokenId
           /\ req[r].resp.data.txHash = req[q].resp.data.txHash


\* ======================================================================
\* Properties of the BadgesTab retry (checked under SpecRetry)
\* ======================================================================

BadgeRowIds(rows) == {r.id : r \in rows}

\* The row of badge b carries token id, transaction hash and metadata URL.
RowMinted(b) ==
    \E r \in badges :
        /\ r.id = b
        /\ r.nft_token_id # Null
        /\ r.mint_tx_hash # Null
        /\ r.metadata_url # Null

\* C6: no step of a retry, whatever the backend answered, changes the number
\* of badge rows or their ids, and there stays at most one row per
\* (test, owner).
C6_RetryNeverInsertsRow ==
    [][/\ Cardinality(badges') = Cardinality(badges)
       /\ BadgeRowIds(badges') = BadgeRowIds(badges)
       /\ OneBadgePerPair(badges')]_vars

\* C6 witness: a retry has written chain data to a row, and the table still
\* holds exactly the rows it started with.
C6_Witness ==
    /\ \E b \in BadgeIds : RowMinted(b)
    /\ BadgeRowIds(badges) = BadgeIds

\* C7: if the user keeps clicking the retry of a badge, then (the backend
\* mint and the row update not failing for ever) its row eventually carries
\* token id, transaction hash and metadata URL; the table never holds a
\* second row for a (test, owner).
C7_RetryEventuallyMints ==
    /\ [](OneBadgePerPair(badges) /\ BadgeRowIds(badges) = BadgeIds)
    /\ \A b \in BadgeIds : ([]<><<ClickRetry(b)>>_vars) => <>RowMinted(b)

\* C7 witness: a retry of b1 failed at the backend (its error response is
\* still held) and another retry of b1 has written the chain data to the
\* one row of b1.
C7_Witness ==
    /\ RowMinted("b1")
    /\ Cardinality({r \in badges : r.test_id = BadgeTest["b1"]}) = 1
    /\ \E p \in RetryIds :
          /\ RetryOf(p, "b1")
          /\ req[p].pc = "done" /\ req[p].resp.status = 500

\* C8: a rejected upload gives a response that is no success and carries no
\* token id or hash (the mint step was not reached); the retry that receives
\* it ends without sending the row update, and so does a retry whose
\* request never reached the backend; and rows change only in the update of
\* a retry whose backend response was a 200.
C8_FailureLeavesRowUnchanged ==
    [][/\ \A p \in RetryIds :
            /\ (req'[p].pc = "done" /\ req'[p].upload = "rejected")
               => /\ req'[p].resp.status # 200
                  /\ "data" \notin DOMAIN req'[p].resp
            /\ (/\ retry[p].pc = "minting"
                /\ req[p].pc = "done" /\ req[p].upload = "rejected"
                /\ retry'[p] # retry[p])
               => /\ badges' = badges
                  /\ retry'[p].pc = "idle"
            /\ (retry[p].pc = "sent" /\ retry'[p].pc = "idle")
               => /\ badges' = badges
                  /\ req'[p] = IdleReq
       /\ badges' # badges
          => \E p \in RetryIds :
                /\ retry[p].pc = "updating"
                /\ retry[p].mintResult.status = 200
                /\ badges' = UpdateBadge(badges, retry[p].badge.id,
                                         retry[p].mintResult.data)]_vars

\* C8 witness: the upload of a retry's request was rejected and every row
\* still has its three chain fields as before the retry.
C8_Witness ==
    \E p \in RetryIds :
        /\ retry[p].pc = "minting"
        /\ req[p].pc = "done" /\ req[p].upload = "rejected"
        /\ \A r \in badges : r.nft_token_id = Null /\ r.mint_tx_hash = Null


\* ======================================================================
\* Properties of the two handlers' validation and responses
\* (checked under SpecMint; the registerTest handler, which has no await,
\* is covered through its response function on every body)
\* ======================================================================

\* A field of the body is missing or empty.
RegisterIncomplete(body) ==
    Falsy(body.testId) \/ Falsy(body.creator) \/ Falsy(body.metadataCid)
MintIncomplete(body) == Falsy(body.receiver) \/ Falsy(body.testId)

\* The response is a 400 and nothing of a workflow result is in it.
Refused(resp) == resp.status = 400 /\ "data" \notin DOMAIN resp

\* C11: a register-test body with testId, creator or metadataCid missing, and
\* a mint-nft body with receiver or testId missing, is answered 400 without
\* the workflow being invoked: no result in the response, no upload started,
\* no blob written, no ledger call, no registry write.
C11_ValidationPrecedesEffects ==
    [][/\ \A b \in RegisterBodies : \A rnd \in RandSuffix :
            \A t2 \in LaterReads(now) :
            RegisterIncomplete(b)
              => Refused(RegisterTestResponse(b, now, t2, rnd))
       /\ \A q \in ReqIds :
            (req'[q].pc # "idle" /\ MintIncomplete(req'[q].body))
            => /\ req'[q].pc = "done"
               /\ Refused(req'[q].resp)
               /\ req'[q].upload = "none"
       /\ (\E q \in ReqIds : /\ req[q].pc = "idle" /\ req'[q].pc # "idle"
                              /\ MintIncomplete(req'[q].body))
          => /\ storage' = storage
             /\ registry' = registry
             /\ lnet' = lnet]_vars

\* C11 witness: a mint-nft request without testId has been answered 400 and
\* no blob has been written.
C11_Witness ==
    \E q \in ReqIds :
        /\ req[q].pc = "done"
        /\ Falsy(req[q].body.testId) /\ ~Falsy(req[q].body.receiver)
        /\ req[q].resp.status = 400
        /\ \A k \in StorageKeys : storage[k] = {}


\* `inner` is the tail of the message `outer`.
EndsWith(outer, inner) ==
    /\ Len(outer) >= Len(inner)
    /\ SubSeq(outer, Len(outer) - Len(inner) + 1, Len(outer)) = inner

\* C12: every handler invocation ends in one response of the three shapes:
\* 400 on an incomplete body, 200 with success=true when the workflow
\* returned, 500 with {error, details} when it threw, details ending with the
\* message of the cause; a request in flight can only go on to its response
\* and a response once sent is not replaced.
C12_OneResponsePerInvocation ==
    [][/\ \A b \in RegisterBodies : \A rnd \in RandSuffix :
            \A t2 \in LaterReads(now) :
            LET r == RegisterTestResponse(b, now, t2, rnd)
            IN IF RegisterIncomplete(b)
               THEN r.status = 400
               ELSE r.status = 200 /\ r.success /\ r.data.success
       /\ \A q \in ReqIds :
            /\ req'[q].pc = "done" =>
                 LET r == req'[q].resp
                 IN IF MintIncomplete(req'[q].body)
                    THEN r.status = 400
                    ELSE IF req'[q].upload = "resolved"
                    THEN r.status = 200 /\ r.success /\ r.data.success
                    ELSE /\ req'[q].upload = "rejected"
                         /\ r.status = 500
                         /\ DOMAIN r = {"status", "error", "details"}
                         /\ EndsWith(r.details, StorageCause)
            /\ (req[q].pc = "upload" /\ req'[q].pc # "upload")
               => req'[q].pc = "done"
            /\ (req[q].pc = "done" /\ req'[q].pc = "done")
               => req'[q].resp = req[q].resp]_vars

\* C12 witness: a mint-nft request whose upload was rejected has its 500
\* response with details.
C12_Witness ==
    \E q \in ReqIds :
        /\ req[q].pc = "done"
        /\ req[q].upload = "rejected"
        /\ req[q].resp.status = 500
        /\ "details" \in DOMAIN req[q].resp


\* ======================================================================
\* Further properties of the BadgesTab retry (checked under SpecRetry)
\* ======================================================================

\* The row of badge id b carries a token id.
RowHasToken(b) == \E r \in badges : r.id = b /\ r.nft_token_id # Null

\* C13: the retry button is offered for a badge only while the row of that
\* badge has no token id, and a row that has a token id is never written
\* again (a minted badge is not minted a second time from the tab).
C13_RetryOnlyWhileTokenNull ==
    [][/\ \A badge \in groupedBadges :
            RetryOffered(badge) => ~RowHasToken(badge.id)
       /\ \A r \in badges : r.nft_token_id # Null => r \in badges']_vars


\* ======================================================================
\* Further properties of the ledger client (checked under SpecLedger)
\* ======================================================================

\* Outcomes of the extraction in which no token id can be decoded.
Undecodable == {"no_meta", "no_retval", "decode_throws"}

\* C14: when the extraction step of a signed mintBadgeNFT (reached only after
\* status SUCCESS) finds no return value or decoding throws, the invocation
\* returns success=true with the hash of the submitted transaction and the
\* generated placeholder token id.
C14_DecodeFailureKeepsMint ==
    [][\A o \in Undecodable : \A d \in ChainTokenIds :
          LedgerExtract(o, d)
          => /\ lstatus = "SUCCESS"
             /\ lpc' = "done"
             /\ lresult'.success
             /\ lresult'.txHash = ltxHash
             /\ ltxHash \in ChainHashes
             /\ lresult'.tokenId = FallbackTokenId(largs.testId, now)]_vars

\* C14 witness: a signed mint has returned with the placeholder token id and
\* the hash of its transaction.
C14_Witness ==
    /\ lop = "mint" /\ lsigner /\ lpc = "done"
    /\ lstatus = "SUCCESS"
    /\ lresult.txHash = ltxHash
    /\ lresult.tokenId \notin ChainTokenIds
    /\ Marker(lresult.tokenId) = "nft"


\* ======================================================================
\* Properties of the read-only ledger calls (checked under SpecRead)
\* ======================================================================

\* The value is the null or empty list a read of `op` returns for nothing.
IsNothing(v, op) ==
    /\ v.kind = ReadNothing(op).kind
    /\ v.kind = "list" => v.items = <<>>

\* The simulation of the read ended in a failure.
ReadSimulationFailed ==
    lsimulated \in {"throws", "sim_error", "no_result", "decode_throws"}

\* C15 as stated: a read never calls sendTransaction, uses a random keypair
\* as source of the transaction it builds, never throws, and returns null or
\* an empty list after any failure, a failed account lookup included.
C15_ReadOnlyAsStated ==
    lop \in ReadOps =>
      /\ lnet.sendTransaction = 0
      /\ laccount # None => largs.source \in RandomKeys
      /\ lpc # "failed"
      /\ lpc = "done" => "returned" \in DOMAIN lresult
      /\ (lpc = "done" /\ (laccount = "dummy" \/ ReadSimulationFailed))
         => IsNothing(lresult.returned, lop)

\* C15 amended: a read never calls sendTransaction, uses a random keypair
\* as source of the transaction it builds and never throws; a failed account
\* lookup is replaced by a dummy account and the read goes on to the
\* simulation; after a simulation error, a missing result or an exception it
\* returns null or an empty list.
C15_ReadOnlyNeverSubmits ==
    lop \in ReadOps =>
      /\ lnet.sendTransaction = 0
      /\ laccount # None => largs.source \in RandomKeys
      /\ lpc # "failed"
      /\ lpc = "done" => "returned" \in DOMAIN lresult
      /\ laccount = "dummy" => lnet.getAccount = 1
      /\ (lpc = "done" /\ ReadSimulationFailed)
         => IsNothing(lresult.returned, lop)

\* C15 witness: a read whose account lookup failed and whose decoding threw
\* has returned null.
C15_Witness ==
    /\ lop = "get_test" /\ lpc = "done"
    /\ laccount = "dummy"
    /\ lsimulated = "decode_throws"
    /\ lresult.returned.kind = "null"


\* ======================================================================
\* Properties of one invocation of the backend services
\* (checked under SpecServices)
\* ======================================================================

\* C16: one invocation of the ledger client's registerTestOnChain or
\* mintBadgeNFT loads the account, simulates and submits at most once each,
\* and one mint-nft request makes at most one metadata upload, whatever the
\* outcome of simulation, submission, polling or upload (an answer of any
\* kind or a rejected call).
C16_NoRetryInsideRequest ==
    /\ lop \in {"register", "mint"} =>
          /\ lnet.getAccount <= 1
          /\ lnet.simulateTransaction <= 1
          /\ lnet.sendTransaction <= 1
    /\ \A q \in Slots : req[q].pc # "idle" => req[q].uploads <= 1

\* C16 witness: a request whose upload was rejected has been answered after
\* one upload.
C16_Witness ==
    \E q \in ReqIds :
        /\ req[q].pc = "done"
        /\ req[q].upload = "rejected"
        /\ req[q].uploads = 1


\* ======================================================================
\* Immutability of a registered test (checked under SpecRegister)
\* ======================================================================

\* C17: once a registration of a testId has been answered with success for
\* (creator, metadataCid), no later registration of the same testId is
\* answered with success for another creator or metadataCid: the creator and
\* the metadata reference reported for a testId never change.
C17_RegisteredTestImmutable ==
    \A i \in DOMAIN regLog : \A j \in DOMAIN regLog :
        (/\ i < j
         /\ regLog[i].resp.status = 200
         /\ regLog[j].resp.status = 200
         /\ regLog[j].body.testId = regLog[i].body.testId)
        => /\ regLog[j].resp.data.testMetadata.testId
                = regLog[i].resp.data.testMetadata.testId
           /\ regLog[j].resp.data.testMetadata.creator
                = regLog[i].resp.data.testMetadata.creator
           /\ regLog[j].resp.data.testMetadata.metadataCid
                = regLog[i].resp.data.testMetadata.metadataCid


\* ======================================================================
\* The attempts table during issuance (checked under SpecRetry)
\* ======================================================================

\* C18: no step of the retry-mint action, of the mint endpoint or of the
\* issuance workflow behind it creates, modifies or deletes an attempt
\* row, whether the issuance succeeds or fails.
C18_IssuanceLeavesAttempts ==
    [][attemptsTable' = attemptsTable]_vars

\* C18 witness: one retry has written its chain data to the badge row and
\* the issuance of another has failed at the upload.
C18_Witness ==
    /\ \E r \in badges : r.nft_token_id # Null
    /\ \E p \in RetryIds : req[p].pc = "done" /\ req[p].upload = "rejected"
    /\ attemptsTable = AttemptRows


\* ======================================================================
\* Properties of the frontend metadata generator
\* (C19 under SpecAttributes, C20 under SpecUpload)
\* ======================================================================

\* The value of the attribute named trait, Null when there is none.
AttributeValue(attrs, trait) ==
    IF \E i \in DOMAIN attrs : attrs[i].trait_type = trait
    THEN attrs[CHOOSE i \in DOMAIN attrs : attrs[i].trait_type = trait].value
    ELSE Null

\* text is x with two decimals, for x = score/total * 100: the hundredth
\* nearest to x.
TwoDecimalsOf(text, score, total) ==
    /\ Len(text) = 4
    /\ text[1] = "%"
    /\ text[3] \in 0..9
    /\ text[4] \in 0..9
    /\ LET h == text[2] * 100 + text[3] * 10 + text[4]
           d == h * total - 10000 * score
       IN 2 * d <= total /\ -2 * d <= total

\* C19: for every (score, totalScore), each possibly absent, the Score
\* attribute of the generated metadata is "score/total" when score is
\* present (0 included) and "Passed" when score is absent; the Percentage
\* attribute is score/total*100 with two decimals when both are present
\* and total > 0 (8 of 10 gives 80.00%), and "N/A" when total is 0 or
\* absent.
C19_ScoreAndPercentage ==
    gen.pc = "built" =>
      LET score == gen.input.score
          total == gen.input.totalScore
          attrs == gen.metadata.attributes
          scoreAttr == AttributeValue(attrs, "Score")
          pctAttr == AttributeValue(attrs, "Percentage")
      IN /\ score # Undefined => scoreAttr = <<"/", score, total>>
         /\ score = Undefined => scoreAttr = <<"Passed">>
         /\ (score # Undefined /\ total # Undefined /\ total > 0)
               => TwoDecimalsOf(pctAttr, score, total)
         /\ (score = 8 /\ total = 10) => pctAttr = <<"%", 80, 0, 0>>
         /\ (total = 0 \/ total = Undefined) => pctAttr = <<"N/A">>

\* The calls of genLog whose upload wrote the key k.
WritesOf(k) ==
    {i \in DOMAIN genLog :
        /\ genLog[i].write > 0
        /\ StorageKey(genLog[i].testId, genLog[i].walletAddress) = k}

\* The call of a non-empty set of calls whose upload was taken last.
LastOf(S) == CHOOSE i \in S : \A j \in S : genLog[j].write <= genLog[i].write

\* The calls that resolved.
Resolved == {i \in DOMAIN genLog : genLog[i].pc = "resolved"}

\* C20: the successful calls of generateBadgeMetadataUri for one
\* (testId, wallet) all return the same URL, that of the key
\* badge-metadata/{testId}_{wallet}.json, and that key holds exactly one
\* blob, the metadata of the call that wrote it last; a key no call wrote
\* holds nothing.
C20_UploadConvergesOnOneKey ==
    /\ \A i \in Resolved :
          /\ genLog[i].write > 0
          /\ genLog[i].url = PublicUrl(StorageKey(genLog[i].testId,
                                                  genLog[i].walletAddress))
          /\ \A j \in Resolved :
                (/\ genLog[j].testId = genLog[i].testId
                 /\ genLog[j].walletAddress = genLog[i].walletAddress)
                => genLog[j].url = genLog[i].url
    /\ \A k \in StorageKeys :
          IF WritesOf(k) = {}
          THEN storage[k] = {}
          ELSE storage[k] = {genLog[LastOf(WritesOf(k))].metadata}

\* C20 witness: two calls for the same (testId, wallet) resolved with
\* different metadata, and the key holds the metadata of the one that
\* wrote last.
C20_Witness ==
    \E i \in Resolved : \E j \in Resolved :
        /\ genLog[i].write < genLog[j].write
        /\ genLog[j].testId = genLog[i].testId
        /\ genLog[j].walletAddress = genLog[i].walletAddress
        /\ genLog[j].metadata # genLog[i].metadata
        /\ j = LastOf(WritesOf(StorageKey(genLog[i].testId,
                                          genLog[i].walletAddress)))
        /\ storage[StorageKey(genLog[i].testId, genLog[i].walletAddress)]
             = {genLog[j].metadata}


\* ======================================================================
\* Lifecycle of a badge row (checked under SpecRetry)
\* ======================================================================

\* C21: through every sequence of successful and failed retries starting
\* from pending badges, each badge row has its nft_token_id set exactly when
\* its mint_tx_hash is set; no row carries only one of the two.
C21_TokenAndHashTogether ==
    \A r \in badges : (r.nft_token_id # Null) <=> (r.mint_tx_hash # Null)

\* C21 witness: the retry of one badge has written token id and hash while
\* that of another failed at the backend and left its row pending.
C21_Witness ==
    /\ \E r \in badges : r.nft_token_id # Null /\ r.mint_tx_hash # Null
    /\ \E r \in badges :
          /\ r.nft_token_id = Null /\ r.mint_tx_hash = Null
          /\ \E p \in RetryIds :
                /\ retry[p].pc = "minting" /\ retry[p].badge.id = r.id
                /\ req[p].pc = "done" /\ req[p].resp.status # 200

\* ======================================================================
\* Synthesized token ids (checked under SpecMint)
\* ======================================================================

\* C22: two mint requests answered with success for different
\* (testId, receiver) pairs carry different tokenId values, also when both
\* ran within the same clock tick.
C22_TokenIdsUnique ==
    \A q \in ReqIds : \A r \in ReqIds :
        (/\ q # r
         /\ req[q].pc = "done" /\ req[q].resp.status = 200
         /\ req[r].pc = "done" /\ req[r].resp.status = 200
         /\ <<req[q].body.testId, req[q].body.receiver>>
              # <<req[r].body.testId, req[r].body.receiver>>)
        => req[q].resp.data.tokenId # req[r].resp.data.tokenId


\* ======================================================================
\* Order of simulation and submission (checked under SpecLedger)
\* ======================================================================

\* C23: in the signed path of registerTestOnChain and mintBadgeNFT a
\* transaction is sent only in an invocation whose simulation has returned
\* without error, and a simulation error (or a simulation call that
\* rejects) ends the invocation: it fails, with the simulation message
\* after a simulation error, and nothing is submitted.
C23_SimulateBeforeSend ==
    [][/\ lnet'.sendTransaction > lnet.sendTransaction
          => /\ lsigner
             /\ lsimulated = "ok"
             /\ lnet.simulateTransaction = 1
       /\ (lsigner' /\ lsimulated' \in {"error", "rejects"})
          => /\ lnet'.sendTransaction = 0
             /\ lsubmit' = None
             /\ lpc' \in {"failed", "idle"}
             /\ ~lresult'.success
       /\ (lsigner' /\ lsimulated' = "error")
          => lresult'.error = WrapError(LedgerErrorPrefix(lop'),
                                        <<"Simulation failed", "sim-error">>)
      ]_vars

\* C23 witness: a signed invocation has submitted its transaction after a
\* simulation without error.
C23_Witness ==
    /\ lsigner
    /\ lsimulated = "ok"
    /\ lnet.simulateTransaction = 1
    /\ lnet.sendTransaction = 1


\* ======================================================================
\* Success of the signed path (checked under SpecLedger)
\* ======================================================================

\* C24: a signed registerTestOnChain or mintBadgeNFT holds a success=true
\* result only if the status its polling ended with is SUCCESS; an
\* invocation that has submitted and whose submit answered ERROR or was
\* rejected, or whose status ended as FAILED, PENDING or anything else, has
\* thrown and holds no success result.
C24_SuccessOnlyOnSUCCESS ==
    /\ (lsigner /\ "success" \in DOMAIN lresult /\ lresult.success)
         => /\ lstatus = "SUCCESS"
            /\ lsubmit \notin {None, "ERROR"}
    /\ (/\ lsigner /\ LedgerFinished /\ lnet.sendTransaction = 1
        /\ (lsubmit = "ERROR" \/ lstatus # "SUCCESS"))
         => /\ lpc = "failed"
            /\ lresult.success = FALSE

\* C24 witness: a signed mint returned success after its polling, of at
\* least one call, saw SUCCESS.
C24_Witness ==
    /\ lsigner /\ lop = "mint" /\ lpc = "done"
    /\ lresult.success
    /\ lstatus = "SUCCESS"
    /\ lattempts >= 1


\* ======================================================================
\* Properties of the session (checked under SpecSession)
\* ======================================================================

\* The account list of the event names another account than a, or none.
OtherAccount(accounts, a) ==
    accounts = <<>> \/ ToLowerCase(accounts[1]) # ToLowerCase(a)

\* C25: while the Dashboard shows a user logged in with account A, an
\* accountsChanged event whose account list is empty or whose first account
\* differs from A case-insensitively logs the user out: both items are
\* removed from local storage and the login page is shown.
C25_AccountChangeLogsOut ==
    [][\A accounts \in AccountLists :
          (/\ HandleAccountsChanged(accounts)
           /\ dash.account # ""
           /\ OtherAccount(accounts, dash.account))
          => /\ localStorage' = NoSession
             /\ page' = "login"]_vars


\* Both items present or both absent.
BothOrNeither(store) ==
    (store.stellar_user = None) <=> (store.stellar_wallet = None)

\* A step in which the connectWallet r fails after it found the wallet
\* provider: a request was rejected, the backend refused, or a call threw.
ConnectFailsWithProvider(r) ==
    \/ \E err \in ConnectErrors, a \in Addresses : ConnectAccounts(r, err, a)
    \/ \E err \in ConnectErrors : ConnectSign(r, err)
    \/ \E outcome \in {"refused", "throws"} : ConnectFetch(r, outcome)

\* A step in which connectWallet finds no wallet provider.
ConnectFailsNoProvider == ConnectWallet /\ ~ethereum.present

\* C29 as stated: the two items are always both present or both absent,
\* and after every failed connectWallet (no provider found, request
\* rejected, backend refusal, exception) both are absent and the account
\* state is empty.
C29_SessionAsStated ==
    /\ BothOrNeither(localStorage)
    /\ [][/\ BothOrNeither(localStorage')
          /\ ((\E r \in BagToSet(login.runs) : ConnectFailsWithProvider(r))
               \/ ConnectFailsNoProvider)
             => /\ localStorage' = NoSession
                /\ login'.account = ""]_vars

\* C29: the two items are always both present or both absent; after a
\* connectWallet that failed once the wallet provider was found both are
\* absent, and the Login that started it, when it is still shown, has an
\* empty account state and shows an error; a connectWallet that finds no
\* wallet provider shows its error and leaves the items as they were.
C29_SessionAllOrNothing ==
    /\ BothOrNeither(localStorage)
    /\ [][/\ BothOrNeither(localStorage')
          /\ \A r \in BagToSet(login.runs) :
               ConnectFailsWithProvider(r)
                 => /\ localStorage' = NoSession
                    /\ ConnectMounted(r) => /\ login'.account = ""
                                            /\ login'.user = None
                                            /\ login'.error # ""
                                            /\ ~login'.loading
          /\ ConnectFailsNoProvider
             => /\ localStorage' = localStorage
                /\ login'.account = ""
                /\ login'.error # ""]_vars

\* C29 witness: a connectWallet has failed on the login page of a browser
\* with a wallet, after the wallet had handed out an account; nothing is
\* stored and the account state is empty.
C29_Witness ==
    /\ page = "login"
    /\ ethereum.present
    /\ ethereum.accounts # <<>>
    /\ login.runs = EmptyBag
    /\ login.error \notin {"", "Please install MetaMask to continue",
                           "Please install MetaMask to use this feature"}
    /\ login.account = ""
    /\ localStorage = NoSession


\* ======================================================================
\* Properties of the EarnTab (C26 under SpecClassify, C27 under
\* SpecRegistration)
\* ======================================================================

\* The lists of a tab a test is shown in.
ListsHolding(tab, id) ==
    {c \in {"active", "upcoming", "previous"} :
        id \in IdsOf(CASE c = "active" -> tab.activeTests
                       [] c = "upcoming" -> tab.upcomingTests
                       [] OTHER -> tab.previousTests)}

\* The tab shows the result of a fetch.
Shown(tab) == ~tab.loading /\ ~tab.error /\ tab.fetchedAt # Undefined

\* Only the card of an active test offers the badge-earning action, and the
\* card of a previous test offers practice, whatever the user has attempted
\* or registered for.
CardsAsClassified ==
    \A status \in {"active", "upcoming", "previous"} :
      \A attempted \in BOOLEAN, registered \in BOOLEAN :
        /\ CardAction(status, attempted, registered) = "Take Test & Earn Badge"
             => status = "active"
        /\ status = "previous"
             => CardAction(status, attempted, registered)
                  = "Take for Practice (No Badge)"

\* C26 as stated: every test fetched by the EarnTab is in exactly one of
\* the lists active, upcoming and previous: active iff start_time <= now
\* <= end_time, upcoming iff now < start_time, previous otherwise (now
\* being the time captured by the fetch); only active tests offer the
\* badge-earning action and previous tests offer practice only.
C26_ClassifiedAsStated ==
    Shown(earn["e1"]) =>
      /\ \A i \in DOMAIN earn["e1"].fetched :
            LET test == earn["e1"].fetched[i]
                t == earn["e1"].fetchedAt
                class == IF test.start_time <= t /\ t <= test.end_time
                         THEN "active"
                         ELSE IF t < test.start_time THEN "upcoming"
                         ELSE "previous"
            IN ListsHolding(earn["e1"], test.id) = {class}
      /\ CardsAsClassified

\* The tests of a fetch that ended before it, in the order fetched.
EndedFetched(tab) ==
    SelectSeq(tab.fetched, LAMBDA test :
        ~(test.start_time <= tab.fetchedAt /\ tab.fetchedAt <= test.end_time)
        /\ ~(tab.fetchedAt < test.start_time))

\* The ids of a list of tests, in the order of the list.
IdList(list) == [i \in DOMAIN list |-> list[i].id]

\* The three lists of a tab.
TestLists(tab) == <<tab.activeTests, tab.upcomingTests, tab.previousTests>>

\* C26: when a fetch has answered all its awaits and the tab shows its
\* lists, every test fetched is in at most one of them: in active iff
\* start_time <= now <= end_time, in upcoming iff now < start_time, and the
\* previous list holds the first 20 of the remaining tests in the order
\* fetched (falling registration count); an ended test beyond the 20th is
\* in no list.  A fetch of which an await fails (the tests query, or the
\* custom badges or the question counts after the tests were answered)
\* sets no list and the tab shows the error, no list.  Only active tests
\* offer the badge-earning action and previous tests offer practice only.
C26_ClassifiedUpToLimit ==
    /\ [](Shown(earn["e1"]) =>
          LET tab == earn["e1"]
              t == tab.fetchedAt
          IN /\ \A i \in DOMAIN tab.fetched :
                   LET test == tab.fetched[i]
                   IN /\ Cardinality(ListsHolding(tab, test.id)) <= 1
                      /\ "active" \in ListsHolding(tab, test.id)
                           <=> (test.start_time <= t /\ t <= test.end_time)
                      /\ "upcoming" \in ListsHolding(tab, test.id)
                           <=> t < test.start_time
             /\ IdList(tab.previousTests)
                  = IdList(SubSeq(EndedFetched(tab), 1,
                                  IF Len(EndedFetched(tab)) < 20
                                  THEN Len(EndedFetched(tab)) ELSE 20))
             /\ CardsAsClassified)
    /\ [][(earn'["e1"].error /\ ~earn["e1"].error)
            => /\ TestLists(earn'["e1"]) = TestLists(earn["e1"])
               /\ ~Shown(earn'["e1"])
               /\ ~earn'["e1"].loading]_vars

\* C26 witness: a fetch at time 1 sorted a table with 21 ended tests, a test
\* that ended at time 0, one that started at time 1 and one still to come.
C26_Witness ==
    /\ Shown(earn["e1"])
    /\ earn["e1"].fetchedAt = 1
    /\ Len(earn["e1"].fetched) = 24
    /\ Len(earn["e1"].activeTests) = 1
    /\ Len(earn["e1"].upcomingTests) = 1
    /\ Len(earn["e1"].previousTests) = 20

\* No handleRegister is running in any tab.
RegistrationsSettled ==
    \A e \in EarnTabs :
        RunsAt(earn[e], "insert") \cup RunsAt(earn[e], "update") = {}

\* C27: once the handleRegister calls of the wallets have finished, the
\* registration_count of the test is its initial value plus the number of
\* test_registrations rows inserted for it; a rejected duplicate leaves
\* the count as it was.
C27_CountMatchesRegistrations ==
    RegistrationsSettled =>
      \A r \in testsTable :
        r.registration_count
          = Future.registration_count
            + Cardinality({x \in registrations : x.test_id = r.id})


\* ======================================================================
\* Properties of the ProfileTab (C28 under SpecProfile)
\* ======================================================================

\* C28: when no upload and no deletion of a custom badge is running, every
\* custom_badges row refers to a blob that exists in storage, whichever
\* storage or database steps failed before: a failed upload inserted no
\* row and a deletion left no row whose blob was removed.
C28_RowsHaveBlobs ==
    ProfileRunsAt({"store", "insert", "remove", "delete"}) = {}
      => \A r \in customBadgesTable.rows : FilePathOf(r.svg_url) \in bucket


\* ======================================================================
\* The retry button while a retry is running (C30 under SpecRetry)
\* ======================================================================

\* C30: at most one retry-mint is in flight per badge: while a retryMintNFT
\* of a badge has started and not yet finished, the retry button of that
\* badge is disabled (mintingBadgeId is the id of the badge) and no second
\* retry of the badge is running, whatever retries run on the other
\* pending badges of the user.
C30_OneRetryPerBadge ==
    /\ \A p \in RetryIds :
          retry[p].pc # "idle" => mintingBadgeId = retry[p].badge.id
    /\ \A p \in RetryIds : \A o \in RetryIds :
          (p # o /\ retry[p].pc # "idle" /\ retry[o].pc # "idle")
            => retry[p].badge.id # retry[o].badge.id

=============================================================================
